---- MODULE Spec2Model ----
(***************************************************************************)
(* nrpeterson/adventofcode2024.                                            *)
(*                                                                         *)
(* Day 16, the reindeer maze.  A maze is turned into a graph of (cell,     *)
(* facing) states, dijkstra computes for every state its distance and the  *)
(* set of predecessors achieving it, part1 reports the least distance of   *)
(* the end cell and part2 walks the predecessor sets backwards and counts  *)
(* the cells it meets.                                                     *)
(*                                                                         *)
(* Day 18, the falling bytes.  A Map keeps the corrupted cells and the     *)
(* cells of a best path from the top left to the bottom right corner,      *)
(* which corrupt computes anew when a byte falls on it.                    *)
(*                                                                         *)
(* Every day is a program of its own: a specification runs one of them and *)
(* leaves the variables of the others as they are.                         *)
(***************************************************************************)
EXTENDS Integers, Sequences, FiniteSets, TLC

\* Day 16.  first, popped and walked are history: the map the first solve
\* returned, the elements the running solve has popped, the nodes the walk
\* has popped.
VARIABLES maze, graph, part, pc, result, heap, popped, first,
          end, seen, queue, walked, ans1, ans2

\* Day 18: the Map, the number of bytes part2 has fed to it, what part2
\* returned, and where part2 stands; the arguments of a call of best_path
\* and what it returned.
VARIABLES map, fed, found, pc18, call18, ret18

vars16 == <<maze, graph, part, pc, result, heap, popped, first,
            end, seen, queue, walked, ans1, ans2>>

vars18 == <<map, fed, found, pc18, call18, ret18>>

\* Day 6: the tokens parsed, the OriginalBoard and the guard parse_input
\* returns, the cell of an AugmentedBoard, the state its next_state returned,
\* a Path returned by path_from, what part2 returned, and where the run
\* stands.
VARIABLES tokens06, base06, guard06, aug06, next06, path06, ans06, pc06

vars06 == <<tokens06, base06, guard06, aug06, next06, path06, ans06, pc06>>

\* Day 14: the pixel map, the pixel asked for, and the score returned.
VARIABLES map14, at14, score14, pc14

vars14 == <<map14, at14, score14, pc14>>

\* Day 15: the Level, what the last apply_move returned, and where the run
\* stands.
VARIABLES level15, moved15, pc15

vars15 == <<level15, moved15, pc15>>

varsRest == <<vars06, vars14, vars15>>

vars == <<vars16, vars18, varsRest>>

\* ------------------------------------------------------------------ bounds

\* Side of the open square of the generated mazes (walls all around it).
Inner == 3

\* The generated mazes hold at most this many walls inside the square.
MaxWalls == 2

\* ------------------------------------------------------------- cell types

\* enum CellType { Start, End, Empty, Wall }
Start == "Start"
End == "End"
Empty == "Empty"
Wall == "Wall"

\* enum Direction { Up, Down, Left, Right }, in declaration order.
Up == "Up"
Down == "Down"
Left == "Left"
Right == "Right"

Directions == <<Up, Down, Left, Right>>

\* The derived Ord of Direction compares the variants' positions.
DirIndex(d) == CHOOSE k \in 1..4 : Directions[k] = d

\* usize::MAX.  TLC's integers are 32 bits wide, so the largest of them stands
\* for it; dijkstra adds a weight only to the cost of a popped entry, which is
\* a finite path cost far below it, so no sum of the model wraps.
usize_MAX == 2147483647

\* ------------------------------------------------------------------ mazes

\* TEST_INPUT_1 of the tests, as parse_input reads it.
TestInput1 ==
  LET W == Wall  O == Empty  S == Start  E == End
  IN  << <<W,W,W,W,W,W,W,W,W,W,W,W,W,W,W>>,
       <<W,O,O,O,O,O,O,O,W,O,O,O,O,E,W>>,
       <<W,O,W,O,W,W,W,O,W,O,W,W,W,O,W>>,
       <<W,O,O,O,O,O,W,O,W,O,O,O,W,O,W>>,
       <<W,O,W,W,W,O,W,W,W,W,W,O,W,O,W>>,
       <<W,O,W,O,W,O,O,O,O,O,O,O,W,O,W>>,
       <<W,O,W,O,W,W,W,W,W,O,W,W,W,O,W>>,
       <<W,O,O,O,O,O,O,O,O,O,O,O,W,O,W>>,
       <<W,W,W,O,W,O,W,W,W,W,W,O,W,O,W>>,
       <<W,O,O,O,W,O,O,O,O,O,W,O,W,O,W>>,
       <<W,O,W,O,W,O,W,W,W,O,W,O,W,O,W>>,
       <<W,O,O,O,O,O,W,O,O,O,W,O,W,O,W>>,
       <<W,O,W,W,W,O,W,O,W,O,W,O,W,O,W>>,
       <<W,S,O,O,W,O,O,O,O,O,W,O,O,O,W>>,
       <<W,W,W,W,W,W,W,W,W,W,W,W,W,W,W>> >>

\* TEST_INPUT_2 of the tests, as parse_input reads it.
TestInput2 ==
  LET W == Wall  O == Empty  S == Start  E == End
  IN  << <<W,W,W,W,W,W,W,W,W,W,W,W,W,W,W,W,W>>,
       <<W,O,O,O,W,O,O,O,W,O,O,O,W,O,O,E,W>>,
       <<W,O,W,O,W,O,W,O,W,O,W,O,W,O,W,O,W>>,
       <<W,O,W,O,W,O,W,O,O,O,W,O,O,O,W,O,W>>,
       <<W,O,W,O,W,O,W,O,W,W,W,O,W,O,W,O,W>>,
       <<W,O,O,O,W,O,W,O,W,O,O,O,O,O,W,O,W>>,
       <<W,O,W,O,W,O,W,O,W,O,W,W,W,W,W,O,W>>,
       <<W,O,W,O,O,O,W,O,W,O,W,O,O,O,O,O,W>>,
       <<W,O,W,O,W,W,W,W,W,O,W,O,W,W,W,O,W>>,
       <<W,O,W,O,W,O,O,O,O,O,O,O,W,O,O,O,W>>,
       <<W,O,W,O,W,W,W,O,W,W,W,W,W,O,W,W,W>>,
       <<W,O,W,O,W,O,O,O,W,O,O,O,O,O,W,O,W>>,
       <<W,O,W,O,W,O,W,W,W,W,W,O,W,W,W,O,W>>,
       <<W,O,W,O,W,O,O,O,O,O,O,O,O,O,W,O,W>>,
       <<W,O,W,O,W,O,W,W,W,W,W,W,W,W,W,O,W>>,
       <<W,S,W,O,O,O,O,O,O,O,O,O,O,O,O,O,W>>,
       <<W,W,W,W,W,W,W,W,W,W,W,W,W,W,W,W,W>> >>

\* A maze whose end cell is reached at the same least cost from above (facing
\* Down) and from below (facing Up).
TwoWayInput ==
  LET W == Wall  O == Empty  S == Start  E == End
  IN  << <<W,W,W,W,W,W>>,
       <<W,O,O,O,O,W>>,
       <<W,S,O,W,E,W>>,
       <<W,W,O,O,O,W>>,
       <<W,W,W,W,W,W>>,
       <<W,W,W,W,W,W>> >>

\* The cells (0-based row and column) of the open square.
InnerCells == { <<i, j>> \in (1..Inner) \X (1..Inner) : TRUE }

\* A generated maze: Start in the bottom left cell of the square, End at e
\* (the top right cell in GeneratedInputs), walls around the square and at
\* the cells ws.
SquareCells(e, ws) ==
  [ r \in 1..(Inner + 2) |->
      [ c \in 1..(Inner + 2) |->
          LET p == <<r - 1, c - 1>>
          IN  IF p \notin InnerCells THEN Wall
              ELSE IF p = <<Inner, 1>> THEN Start
              ELSE IF p = e THEN End
              ELSE IF p \in ws THEN Wall
              ELSE Empty ] ]

GeneratedInputs ==
  { SquareCells(<<1, Inner>>, ws) :
      ws \in { ws \in SUBSET (InnerCells \ {<<Inner, 1>>, <<1, Inner>>}) :
                 Cardinality(ws) <= MaxWalls } }

Inputs == {TestInput1, TestInput2, TwoWayInput} \cup GeneratedInputs

\* ------------------------------------------------------------------- Maze

\* (0..rows).cartesian_product(0..cols).find(|(i, j)| cells[i][j] == Start)
\* and its unwrap: the k-th pair of the product is (k div cols, k mod cols);
\* "panic" for the unwrap of a search that found nothing.
FindStart(cells, rows, cols) ==
  LET Hit(k) == cells[(k \div cols) + 1][(k % cols) + 1] = Start
      hits == { k \in 0..(rows * cols - 1) : Hit(k) }
  IN  IF hits = {} THEN "panic"
      ELSE LET k == CHOOSE k \in hits : \A o \in hits : k <= o
           IN  <<k \div cols, k % cols>>

\* (0..cols).cartesian_product(0..rows).find(|(i, j)| cells[i][j] == End) and
\* its unwrap: the ranges are those of the source, columns first, so the k-th
\* pair is (k div rows, k mod rows).  The search stops at the first pair that
\* indexes outside the vectors (a panic) or holds End; "panic" also for the
\* unwrap of a search that found nothing.
FindEnd(cells, rows, cols) ==
  LET I(k) == k \div rows
      J(k) == k % rows
      Out(k) == I(k) >= rows \/ J(k) >= cols
      Stop(k) == Out(k) \/ cells[I(k) + 1][J(k) + 1] = End
      stops == { k \in 0..(cols * rows - 1) : Stop(k) }
  IN  IF stops = {} THEN "panic"
      ELSE LET k == CHOOSE k \in stops : \A o \in stops : k <= o
           IN  IF Out(k) THEN "panic" ELSE <<I(k), J(k)>>

\* Maze::from_cells
from_cells(cells) ==
  LET rows == Len(cells)
      cols == Len(cells[1])
  IN  [ cells |-> cells, rows |-> rows, cols |-> cols,
        start |-> FindStart(cells, rows, cols),
        end |-> FindEnd(cells, rows, cols) ]

\* Option<(usize, usize)>: None is <<>>, Some(p) is <<p>>.
None == <<>>
Some(p) == <<p>>

\* Maze::next_pos
next_pos(m, pos, direction) ==
  LET i == pos[1]
      j == pos[2]
  IN  CASE direction = Up /\ i = 0 -> None
        [] direction = Up -> Some(<<i - 1, j>>)
        [] direction = Down /\ i = m.rows - 1 -> None
        [] direction = Down -> Some(<<i + 1, j>>)
        [] direction = Left /\ j = 0 -> None
        [] direction = Left -> Some(<<i, j - 1>>)
        [] direction = Right /\ j = m.cols - 1 -> None
        [] direction = Right -> Some(<<i, j + 1>>)

\* maze.cells[x][y], the indices 0-based as in the source
CellAt(m, x, y) == m.cells[x + 1][y + 1]

\* ------------------------------------------------------------------ Graph

\* struct Node { x, y, direction }
Node(x, y, direction) == [x |-> x, y |-> y, direction |-> direction]

\* turns with the facing itself for the first of the two.
turnsKeepFacing(direction) ==
  CASE direction = Up -> <<Up, Right>>
    [] direction = Down -> <<Down, Right>>
    [] direction = Right -> <<Right, Down>>
    [] direction = Left -> <<Left, Down>>

\* The two facings a turn leads to.
turns(direction) ==
  CASE direction = Up -> <<Left, Right>>
    [] direction = Down -> <<Left, Right>>
    [] direction = Right -> <<Up, Down>>
    [] direction = Left -> <<Up, Down>>

\* Neighbors without the test for a wall in the next cell.
NeighborsThroughWalls(m, x, y, direction) ==
  LET np == next_pos(m, <<x, y>>, direction)
      forward == IF np # None
                 THEN << <<Node(np[1][1], np[1][2], direction), 1>> >>
                 ELSE << >>
      t == turns(direction)
  IN  forward \o << <<Node(x, y, t[1]), 1000>>, <<Node(x, y, t[2]), 1000>> >>

\* The vector of (neighbour, weight) that from_maze pushes for one node: the
\* step forward when the next cell is in the grid and no wall, then the turns.
Neighbors(m, x, y, direction) ==
  LET np == next_pos(m, <<x, y>>, direction)
      forward == IF np # None /\ CellAt(m, np[1][1], np[1][2]) # Wall
                 THEN << <<Node(np[1][1], np[1][2], direction), 1>> >>
                 ELSE << >>
      t == turns(direction)
  IN  forward \o << <<Node(x, y, t[1]), 1000>>, <<Node(x, y, t[2]), 1000>> >>

\* Graph::from_maze: adj_list, a map whose keys are the nodes of the cells
\* that are no wall.
from_maze(m) ==
  LET keys == { Node(x, y, d) : <<x, y, d>> \in
                  { <<x, y, d>> \in (0..(m.rows - 1)) \X (0..(m.cols - 1)) \X
                                    {Up, Down, Left, Right} :
                      CellAt(m, x, y) # Wall } }
  IN  [ n \in keys |-> Neighbors(m, n.x, n.y, n.direction) ]

\* The start node of part1 and part2.
StartNode(m) == Node(m.start[1], m.start[2], Right)

\* --------------------------------------------------------------- dijkstra

\* The derived Ord of Node: x, then y, then direction.
NodeCmp(a, b) ==
  IF a.x # b.x THEN (IF a.x < b.x THEN -1 ELSE 1)
  ELSE IF a.y # b.y THEN (IF a.y < b.y THEN -1 ELSE 1)
  ELSE IF a.direction # b.direction
       THEN (IF DirIndex(a.direction) < DirIndex(b.direction) THEN -1 ELSE 1)
  ELSE 0

\* struct HeapElem { node, cost }
HeapElem(node, cost) == [node |-> node, cost |-> cost]

\* Ord for HeapElem: other.cost.cmp(self.cost), then self.node.cmp(other.node)
HeapElemCmp(self, other) ==
  IF other.cost # self.cost THEN (IF other.cost < self.cost THEN -1 ELSE 1)
  ELSE NodeCmp(self.node, other.node)

\* HeapPop with the least element of the order for the greatest.
HeapPopLeast(h) == CHOOSE e \in h : \A f \in h : HeapElemCmp(e, f) <= 0

\* BinaryHeap::pop: the greatest element of the heap.  The heap is a set: an
\* element is pushed when the recorded distance of its node drops to its
\* cost, so no element is pushed twice.
HeapPop(h) == CHOOSE e \in h : \A f \in h : HeapElemCmp(e, f) >= 0

\* InitResult with every distance, not only the source's, starting at 0.
InitResultZero(g, from) ==
  [ n \in DOMAIN g |-> [dist |-> 0, preds |-> {}] ]

\* The map dijkstra starts from: every key of adj_list at usize::MAX with no
\* predecessor, the source at 0.
InitResult(g, from) ==
  [ n \in DOMAIN g |->
      [dist |-> IF n = from THEN 0 ELSE usize_MAX, preds |-> {}] ]

\* The heap dijkstra starts from.
InitHeap(from) == { HeapElem(from, 0) }

\* Skip with >= for >: an entry at the recorded distance is skipped too.
SkipOrEqual(res, node, cost) == res[node].dist >= cost

\* The test that skips a popped entry.
Skip(res, node, cost) == res[node].dist > cost

\* Relax without the push of the improved neighbour.
RelaxNoPush(st, node, cost, neighbor, weight) ==
  IF neighbor \notin DOMAIN st.result THEN st
  ELSE LET cur == st.result[neighbor]
       IN  IF cur.dist = cost + weight
           THEN [st EXCEPT !.result[neighbor].preds = cur.preds \cup {node}]
           ELSE IF cur.dist > cost + weight
           THEN [st EXCEPT !.result[neighbor] = [dist |-> cost + weight,
                                                 preds |-> {node}]]
           ELSE st

\* Relax without the branch for a neighbour at exactly cost + weight.
RelaxNoTie(st, node, cost, neighbor, weight) ==
  IF neighbor \notin DOMAIN st.result THEN st
  ELSE LET cur == st.result[neighbor]
       IN  IF cur.dist > cost + weight
           THEN [ result |-> [st.result EXCEPT
                                ![neighbor] = [dist |-> cost + weight,
                                               preds |-> {node}]],
                  heap |-> st.heap \cup {[node |-> neighbor, cost |-> cost + weight]} ]
           ELSE st

\* Relax without the clear() of the predecessors of an improved neighbour.
RelaxNoClear(st, node, cost, neighbor, weight) ==
  IF neighbor \notin DOMAIN st.result THEN st
  ELSE LET cur == st.result[neighbor]
       IN  IF cur.dist >= cost + weight
           THEN [ result |-> [st.result EXCEPT
                                ![neighbor] = [dist |-> cost + weight,
                                               preds |-> cur.preds \cup {node}]],
                  heap |-> IF cur.dist > cost + weight
                           THEN st.heap \cup {[node |-> neighbor, cost |-> cost + weight]}
                           ELSE st.heap ]
           ELSE st

\* Relax with != for > in the second test: a neighbour recorded at less than
\* cost + weight is overwritten too.
RelaxOverwrite(st, node, cost, neighbor, weight) ==
  IF neighbor \notin DOMAIN st.result THEN st
  ELSE LET cur == st.result[neighbor]
       IN  IF cur.dist = cost + weight
           THEN [st EXCEPT !.result[neighbor].preds = cur.preds \cup {node}]
           ELSE [ result |-> [st.result EXCEPT
                                ![neighbor] = [dist |-> cost + weight,
                                               preds |-> {node}]],
                  heap |-> st.heap \cup {[node |-> neighbor, cost |-> cost + weight]} ]

\* The body of the loop over the neighbours, for one (neighbor, weight): st
\* holds result and heap.
Relax(st, node, cost, neighbor, weight) ==
  IF neighbor \notin DOMAIN st.result THEN st
  ELSE LET cur == st.result[neighbor]
       IN  IF cur.dist = cost + weight
           THEN [st EXCEPT !.result[neighbor].preds = cur.preds \cup {node}]
           ELSE IF cur.dist > cost + weight
           THEN [ result |-> [st.result EXCEPT
                                ![neighbor] = [dist |-> cost + weight,
                                               preds |-> {node}]],
                  heap |-> st.heap \cup {HeapElem(neighbor, cost + weight)} ]
           ELSE st

\* The loop over graph.adj_list[&node], in the order of the vector, from its
\* k-th element on.
RECURSIVE RelaxFrom(_, _, _, _, _)
RelaxFrom(st, adj, node, cost, k) ==
  IF k > Len(adj) THEN st
  ELSE RelaxFrom(Relax(st, node, cost, adj[k][1], adj[k][2]),
                 adj, node, cost, k + 1)

\* Round with the popped element left in the heap (a peek for the pop).
RoundKeepsElement(g, res, h, e) ==
  LET st == IF res[e.node].dist > e.cost
            THEN [result |-> res, heap |-> h]
            ELSE RelaxFrom([result |-> res, heap |-> h], g[e.node], e.node, e.cost, 1)
  IN  [st EXCEPT !.heap = @ \cup {e}]

\* One round of the while loop of dijkstra on the popped element e.
Round(g, res, h, e) ==
  IF Skip(res, e.node, e.cost)
  THEN [result |-> res, heap |-> h]
  ELSE RelaxFrom([result |-> res, heap |-> h], g[e.node], e.node, e.cost, 1)

\* ------------------------------------------------------------------ parts

\* The four nodes of the end cell, in the order part1 and part2 build them.
EndNodes(m) == [ k \in 1..4 |-> Node(m.end[1], m.end[2], Directions[k]) ]

\* Part1Min with the first end node's distance for the minimum.
Part1First(res, m) == res[EndNodes(m)[1]].dist

\* Iterator::min of the distances of the end nodes.
Part1Min(res, m) ==
  LET ds == { res[EndNodes(m)[k]].dist : k \in 1..4 }
  IN  CHOOSE d \in ds : \A o \in ds : d <= o

\* Iterator::min_by_key: the first of the end nodes whose distance is least.
MinByKey(res, m) ==
  LET ns == EndNodes(m)
      k == CHOOSE k \in 1..4 :
             /\ \A o \in 1..4 : res[ns[k]].dist <= res[ns[o]].dist
             /\ \A o \in 1..(k - 1) : res[ns[o]].dist # res[ns[k]].dist
  IN  ns[k]

\* IterOrders cut to one element: the walk queues one predecessor only.
IterFirstOnly(s) ==
  IF s = {} THEN { <<>> } ELSE { <<n>> : n \in s }

\* The orders in which the iterator of a HashSet may yield its elements.
IterOrders(s) ==
  { q \in [1..Cardinality(s) -> s] : \A a, b \in DOMAIN q : a # b => q[a] # q[b] }

\* ---------------------------------------------------------------- actions

\* Day 6 does not run.
Idle06 ==
  /\ tokens06 = None
  /\ base06 = None
  /\ guard06 = None
  /\ aug06 = None
  /\ next06 = None
  /\ path06 = None
  /\ ans06 = None
  /\ pc06 = "idle"

\* Day 14 does not run.
Idle14 ==
  /\ map14 = None
  /\ at14 = None
  /\ score14 = None
  /\ pc14 = "idle"

\* Day 15 does not run.
Idle15 ==
  /\ level15 = None
  /\ moved15 = None
  /\ pc15 = "idle"

\* No day but 16 and 18 runs.
IdleRest == Idle06 /\ Idle14 /\ Idle15

\* Day 18 does not run.
Idle18 ==
  /\ map = None
  /\ fed = 0
  /\ found = None
  /\ pc18 = "idle"
  /\ call18 = None
  /\ ret18 = None

\* main runs part1 on the input: parse, from_maze, dijkstra's set-up.
Init ==
  /\ maze \in { from_cells(c) : c \in Inputs }
  /\ graph = from_maze(maze)
  /\ part = 1
  /\ pc = "dijkstra"
  /\ result = InitResult(graph, StartNode(maze))
  /\ heap = InitHeap(StartNode(maze))
  /\ popped = {}
  /\ first = None
  /\ end = None
  /\ seen = {}
  /\ queue = <<>>
  /\ walked = {}
  /\ ans1 = None
  /\ ans2 = None
  /\ Idle18
  /\ IdleRest

\* One round of dijkstra's loop: pop, skip or relax the neighbours.  popped
\* remembers the elements the solve has popped.
DijkstraRound ==
  /\ pc = "dijkstra"
  /\ heap # {}
  /\ LET e == HeapPop(heap)
         st == Round(graph, result, heap \ {e}, e)
     IN  /\ result' = st.result
         /\ heap' = st.heap
         /\ popped' = popped \cup {e}
  /\ UNCHANGED <<maze, graph, part, pc, first, end, seen, queue, walked,
                 ans1, ans2, vars18, varsRest>>

\* part1: the heap is empty, dijkstra returns, part1 returns the minimum.
Part1Return ==
  /\ pc = "dijkstra"
  /\ heap = {}
  /\ part = 1
  /\ ans1' = Some(Part1Min(result, maze))
  /\ first' = Some(result)
  /\ pc' = "part1_returned"
  /\ UNCHANGED <<maze, graph, part, result, heap, popped, end, seen, queue,
                 walked, ans2, vars18, varsRest>>

\* main runs part2 on the same input: parse, from_maze, dijkstra's set-up.
Part2Start ==
  /\ pc = "part1_returned"
  /\ part' = 2
  /\ graph' = from_maze(maze)
  /\ result' = InitResult(graph', StartNode(maze))
  /\ heap' = InitHeap(StartNode(maze))
  /\ popped' = {}
  /\ pc' = "dijkstra"
  /\ UNCHANGED <<maze, first, end, seen, queue, walked, ans1, ans2, vars18, varsRest>>

\* part2: dijkstra returns, the end node is chosen and queued.
Part2SelectEnd ==
  /\ pc = "dijkstra"
  /\ heap = {}
  /\ part = 2
  /\ end' = Some(MinByKey(result, maze))
  /\ seen' = {}
  /\ queue' = <<MinByKey(result, maze)>>
  /\ walked' = {}
  /\ pc' = "walk"
  /\ UNCHANGED <<maze, graph, part, result, heap, popped, first, ans1, ans2,
                 vars18, varsRest>>

\* One round of part2's loop: pop the front, record its cell, queue its
\* predecessors.  walked remembers the nodes the loop has popped.
WalkRound ==
  /\ pc = "walk"
  /\ queue # <<>>
  /\ LET node == Head(queue)
     IN  /\ seen' = seen \cup {<<node.x, node.y>>}
         /\ walked' = walked \cup {node}
         /\ \E order \in IterOrders(result[node].preds) :
              queue' = Tail(queue) \o order
  /\ UNCHANGED <<maze, graph, part, pc, result, heap, popped, first, end,
                 ans1, ans2, vars18, varsRest>>

\* part2 returns seen.len().
Part2Return ==
  /\ pc = "walk"
  /\ queue = <<>>
  /\ ans2' = Some(Cardinality(seen))
  /\ pc' = "done"
  /\ UNCHANGED <<maze, graph, part, result, heap, popped, first, end, seen,
                 queue, walked, ans1, vars18, varsRest>>

Next ==
  \/ DijkstraRound
  \/ Part1Return
  \/ Part2Start
  \/ Part2SelectEnd
  \/ WalkRound
  \/ Part2Return

Spec == Init /\ [][Next]_vars

\* ------------------------------------------------- reference definitions

\* The edges (u, v, w) of a graph: v and w from the vector adj_list holds for u.
Edges(g) ==
  { <<u, g[u][k][1], g[u][k][2]>> : <<u, k>> \in
      { <<u, k>> \in (DOMAIN g) \X (1..3) : k <= Len(g[u]) } }

\* The edges of es turned around.
Reversed(es) == { <<e[2], e[1], e[3]>> : e \in es }

\* The least element of a non-empty set of numbers.
Least(s) == CHOOSE d \in s : \A o \in s : d <= o

\* One round of relaxing every edge at once (Bellman-Ford): into[v] holds
\* the edges that end at v.
BellmanFordRound(into, d) ==
  [ v \in DOMAIN d |->
      Least({d[v]} \cup { d[e[1]] + e[3] : e \in { e \in into[v] : d[e[1]] # usize_MAX } }) ]

RECURSIVE BellmanFord(_, _)
BellmanFord(into, d) ==
  LET d2 == BellmanFordRound(into, d)
  IN  IF d2 = d THEN d ELSE BellmanFord(into, d2)

\* The least total weight of a path of edges es from src to each node,
\* usize_MAX where there is none.
MinWeight(nodes, es, src) ==
  LET into == [ v \in nodes |-> { e \in es : e[2] = v } ]
  IN  BellmanFord(into, [ v \in nodes |-> IF v = src THEN 0 ELSE usize_MAX ])

\* dijkstra has left its loop.
Returned == pc = "dijkstra" /\ heap = {}

\* The least weights from the start node of the maze (part1's and part2's
\* source) in the graph of the state.
FromStart == MinWeight(DOMAIN graph, Edges(graph), StartNode(maze))

\* The least weights to node t in the graph of the state.
Towards(t) == MinWeight(DOMAIN graph, Reversed(Edges(graph)), t)

\* The nodes on a path of least weight from the start node to t, given the
\* least weights md from the start and rd to t.
OnLeastPath(md, rd, t) ==
  { v \in DOMAIN graph :
      /\ md[v] # usize_MAX
      /\ rd[v] # usize_MAX
      /\ md[v] + rd[v] = md[t] }

\* The cells of a set of nodes.
CellsOf(ns) == { <<n.x, n.y>> : n \in ns }

\* ----------------------------------------------------------------- claims

\* C1: when dijkstra returns, the recorded distance of every state reachable
\* from the source is the least total weight of a path from the source to it.
C1_DistanceIsLeastWeight ==
  Returned =>
    LET md == FromStart
    IN  \A v \in DOMAIN graph : md[v] # usize_MAX => result[v].dist = md[v]

\* A solve has returned in which the distance first recorded for some state
\* was improved later (an element popped for it costs more than its distance).
C1_Witness ==
  /\ Returned
  /\ \E e \in popped :
       /\ result[e.node].dist # 0
       /\ result[e.node].dist < e.cost

\* C2: when dijkstra returns, every in-neighbour p of v with an edge (p, v, w)
\* and dist[p] + w = dist[v] is in the predecessor set of v.
C2_PredecessorsComplete ==
  Returned =>
    \A p \in DOMAIN graph : \A k \in 1..Len(graph[p]) :
      LET v == graph[p][k][1]
          w == graph[p][k][2]
      IN  (/\ v \in DOMAIN result
           /\ result[p].dist # usize_MAX
           /\ result[p].dist + w = result[v].dist) => p \in result[v].preds

\* A solve has returned with a state that two in-neighbours tie for.
C2_Witness ==
  /\ Returned
  /\ \E v \in DOMAIN result : Cardinality(result[v].preds) >= 2

\* C3: when dijkstra returns, every member p of the predecessor set of v has
\* an edge (p, v, w) with dist[p] + w = dist[v], dist[p] the final distance.
C3_PredecessorsSound ==
  Returned =>
    \A v \in DOMAIN result : \A p \in result[v].preds :
      \E k \in 1..Len(graph[p]) :
        /\ graph[p][k][1] = v
        /\ result[p].dist + graph[p][k][2] = result[v].dist

\* A solve has returned in which a predecessor of some state was also popped
\* with a cost above its final distance.
C3_Witness ==
  /\ Returned
  /\ \E e \in popped :
       /\ result[e.node].dist < e.cost
       /\ \E v \in DOMAIN result : e.node \in result[v].preds

\* C4: when part2 is done, the cells of every least-weight path to every end
\* node that ties for the least distance are among the cells counted.
C4_AllTiedEndsWalked ==
  pc = "done" =>
    LET md == FromStart
        best == Least({ md[EndNodes(maze)[k]] : k \in 1..4 })
    IN  best # usize_MAX =>
          \A k \in 1..4 :
            LET t == EndNodes(maze)[k]
            IN  md[t] = best =>
                  /\ CellsOf(OnLeastPath(md, Towards(t), t)) \subseteq seen
                  /\ ans2[1] >= Cardinality(CellsOf(OnLeastPath(md, Towards(t), t)))

\* What part2 does on TwoWayInput: the end nodes facing Up and Down tie at
\* 3005, min_by_key yields the first of them, and the 6 cells of the paths to
\* it are counted; the paths to the other pass 4 cells more.
C4_Observed ==
  (pc = "done" /\ maze.cells = TwoWayInput) =>
    /\ result[EndNodes(maze)[1]].dist = 3005
    /\ result[EndNodes(maze)[2]].dist = 3005
    /\ end = Some(EndNodes(maze)[1])
    /\ ans2 = Some(6)
    /\ Cardinality(CellsOf(OnLeastPath(FromStart, Towards(EndNodes(maze)[2]),
                                       EndNodes(maze)[2])) \ seen) = 4

\* C5: when the end cell is not reachable, part1 returns usize::MAX and part2
\* an empty set of cells, count 0.
C5_UnreachableEndCountsNothing ==
  (pc = "done" /\ Part1Min(result, maze) = usize_MAX) =>
    /\ ans1 = Some(usize_MAX)
    /\ seen = {}
    /\ ans2 = Some(0)

\* What the parts do when the end cell is not reachable: part1 returns
\* usize::MAX, part2 queues the end node facing Up, records its cell and
\* returns 1.
C5_Observed ==
  (pc = "done" /\ Part1Min(result, maze) = usize_MAX) =>
    /\ ans1 = Some(usize_MAX)
    /\ end = Some(EndNodes(maze)[1])
    /\ seen = {maze.end}
    /\ ans2 = Some(1)

\* C6: when part2 is done and the chosen end node t is reachable, the nodes
\* the walk has popped are the nodes on a least-weight path from the start
\* node to t, the start node among them, and part2 returns the number of
\* their cells: 45 and 64 for the two mazes of the tests.
C6_WalkIsLeastPaths ==
  pc = "done" =>
    LET t == end[1]
        md == FromStart
    IN  /\ md[t] # usize_MAX =>
             LET on == OnLeastPath(md, Towards(t), t)
             IN  /\ walked = on
                 /\ StartNode(maze) \in walked
                 /\ ans2 = Some(Cardinality(CellsOf(on)))
        /\ maze.cells = TestInput1 => ans2 = Some(45)
        /\ maze.cells = TestInput2 => ans2 = Some(64)

\* part2 is done on a maze where the walk met a node with two predecessors.
C6_Witness ==
  /\ pc = "done"
  /\ result[end[1]].dist # usize_MAX
  /\ StartNode(maze) \in walked
  /\ \E v \in walked : Cardinality(result[v].preds) >= 2

\* C7: part1 returns the least, over the four facings at the end cell, of the
\* least weights from the start node: 7036 and 11048 for the mazes of the tests.
C7_Part1IsLeastCost ==
  pc = "part1_returned" =>
    LET md == FromStart
    IN  /\ ans1 = Some(Least({ md[EndNodes(maze)[k]] : k \in 1..4 }))
        /\ maze.cells = TestInput1 => ans1 = Some(7036)
        /\ maze.cells = TestInput2 => ans1 = Some(11048)

\* part1 has returned on a maze whose end nodes differ in distance.
C7_Witness ==
  /\ pc = "part1_returned"
  /\ ans1 # Some(usize_MAX)
  /\ \E k \in 1..4 : result[EndNodes(maze)[k]].dist > ans1[1]

\* C8: when dijkstra returns, every state not reachable from the source is at
\* usize::MAX with no predecessor.
C8_UnreachableStayInfinite ==
  Returned =>
    LET md == FromStart
    IN  \A v \in DOMAIN graph :
          md[v] = usize_MAX => result[v] = [dist |-> usize_MAX, preds |-> {}]

\* A solve has returned on a maze with a state out of reach of the source.
C8_Witness ==
  /\ Returned
  /\ \E v \in DOMAIN result : result[v].dist = usize_MAX
  /\ \E v \in DOMAIN result : result[v].dist \notin {0, usize_MAX}

\* C9: when dijkstra returns, dist[v] <= dist[u] + w for every edge (u, v, w)
\* with u reachable.  Stated for every edge whose u has a finite distance:
\* with dist[u] at usize::MAX the sum exceeds every distance.
C9_TriangleConsistent ==
  Returned =>
    \A u \in DOMAIN graph : \A k \in 1..Len(graph[u]) :
      (result[u].dist # usize_MAX /\ graph[u][k][1] \in DOMAIN result) =>
         result[graph[u][k][1]].dist <= result[u].dist + graph[u][k][2]

\* A solve has returned with an edge out of a reachable state that is not tight.
C9_Witness ==
  /\ Returned
  /\ \E u \in DOMAIN graph : \E k \in 1..Len(graph[u]) :
       /\ result[u].dist # usize_MAX
       /\ result[graph[u][k][1]].dist < result[u].dist + graph[u][k][2]

\* The popped element e finalises its node: it was popped at the recorded
\* distance of the node and no element of that cost or less is left in the
\* heap of the running solve.
Finalized(e) ==
  /\ pc = "dijkstra"
  /\ e \in popped
  /\ e.cost = result[e.node].dist
  /\ \A f \in heap : f.cost > e.cost

\* C10: once a state was popped at its recorded distance and no element of
\* that cost or less is left in the heap, no step of the solve changes the
\* distance of the state, and the state stays so while the solve runs.
C10_FinalizedNeverChanges ==
  [][ \A e \in popped :
        Finalized(e) =>
          /\ result'[e.node].dist = result[e.node].dist
          /\ pc' = "dijkstra" => Finalized(e)' ]_vars

\* A state is finalised while the heap still holds elements.
C10_Witness ==
  /\ heap # {}
  /\ \E e \in popped : Finalized(e) /\ e.node # StartNode(maze)

\* ------------------------------------------- day 16, any order among ties

\* The elements of the heap that no other is cheaper than.  The Ord of
\* HeapElem puts every one of them above the others; which of them comes
\* first is decided by the order of Node alone.
Cheapest(h) == { e \in h : \A f \in h : e.cost <= f.cost }

\* One round of dijkstra's loop under any order of Node: the element popped is
\* any of the cheapest.
DijkstraRoundAnyTie ==
  /\ pc = "dijkstra"
  /\ heap # {}
  /\ \E e \in Cheapest(heap) :
       LET st == Round(graph, result, heap \ {e}, e)
       IN  /\ result' = st.result
           /\ heap' = st.heap
           /\ popped' = popped \cup {e}
  /\ UNCHANGED <<maze, graph, part, pc, first, end, seen, queue, walked,
                 ans1, ans2, vars18, varsRest>>

NextAnyTie ==
  \/ DijkstraRoundAnyTie
  \/ Part1Return
  \/ Part2Start
  \/ Part2SelectEnd
  \/ WalkRound
  \/ Part2Return

\* main with the ties of the heap broken in any way, anew at every pop.
SpecAnyTie == Init /\ [][NextAnyTie]_vars

\* C11: the second solve of a run, on the same graph from the same source,
\* returns the distances and the predecessor sets the first solve returned,
\* whatever the order in which either popped the elements of equal cost.
C11_SecondSolveAgrees ==
  (Returned /\ part = 2) => first = Some(result)

\* The second solve has returned after a round of it found two elements of
\* equal cost to choose from, on a maze where two in-neighbours tie.
C11_Witness ==
  /\ Returned
  /\ part = 2
  /\ \E e, f \in popped : e # f /\ e.cost = f.cost
  /\ \E v \in DOMAIN result : Cardinality(result[v].preds) >= 2

\* ------------------------------------------------- day 16, the loop runs

\* The inputs of the runs whose end is checked: the first maze of the tests,
\* the two-way maze and the generated mazes with a wall less than MaxWalls.
FairInputs ==
  {TestInput1, TwoWayInput} \cup
  { SquareCells(<<1, Inner>>, ws) :
      ws \in { ws \in SUBSET (InnerCells \ {<<Inner, 1>>, <<1, Inner>>}) :
                 Cardinality(ws) <= MaxWalls - 1 } }

InitFair ==
  /\ Init
  /\ maze.cells \in FairInputs

\* The program is sequential: while the heap holds an element, the loop of
\* dijkstra takes its next round.
FairSpec == InitFair /\ [][Next]_vars /\ WF_vars(DijkstraRound)

\* C12: the loop of dijkstra terminates: from every state of a solve the heap
\* becomes empty; and every element pushed is pushed at the distance its node
\* has just strictly dropped to.
C12_SolveTerminates ==
  /\ (pc = "dijkstra") ~> Returned
  /\ [][ \A f \in heap' \ heap :
           (pc = "dijkstra" /\ pc' = "dijkstra") =>
              /\ result'[f.node].dist = f.cost
              /\ f.cost < result[f.node].dist ]_vars

\* The second solve of a run has emptied the heap after popping an element for
\* every node and one more for a node whose distance dropped twice.
C12_Witness ==
  /\ Returned
  /\ part = 2
  /\ Cardinality(popped) > Cardinality(DOMAIN graph)

\* ------------------------------------------- day 16, dijkstra on any graph

\* A graph without a node: no key in adj_list.
EmptyGraph == << >>

\* The graph g without the key n.
WithoutKey(g, n) == [ k \in (DOMAIN g) \ {n} |-> g[k] ]

\* A caller is about to call dijkstra(graph, from), from the start node of the
\* maze: on the graph of the maze, on that graph without the key of from, or
\* on the graph without a node.
InitCall ==
  /\ maze \in { from_cells(c) : c \in GeneratedInputs }
  /\ graph \in { from_maze(maze), WithoutKey(from_maze(maze), StartNode(maze)),
                 EmptyGraph }
  /\ part = 1
  /\ pc = "call"
  /\ result = None
  /\ heap = {}
  /\ popped = {}
  /\ first = None
  /\ end = None
  /\ seen = {}
  /\ queue = <<>>
  /\ walked = {}
  /\ ans1 = None
  /\ ans2 = None
  /\ Idle18
  /\ IdleRest

\* dijkstra's set-up: result from the keys of adj_list, then
\* result.get_mut(&from).unwrap().0 = 0, which panics when from is no key,
\* then the heap.
DijkstraCall ==
  /\ pc = "call"
  /\ IF StartNode(maze) \in DOMAIN graph
     THEN /\ result' = InitResult(graph, StartNode(maze))
          /\ heap' = InitHeap(StartNode(maze))
          /\ pc' = "dijkstra"
     ELSE /\ result' = [ n \in DOMAIN graph |-> [dist |-> usize_MAX, preds |-> {}] ]
          /\ heap' = heap
          /\ pc' = "panic"
  /\ UNCHANGED <<maze, graph, part, popped, first, end, seen, queue, walked,
                 ans1, ans2, vars18, varsRest>>

NextCall ==
  \/ DijkstraCall
  \/ DijkstraRound

SpecCall == InitCall /\ [][NextCall]_vars

\* C13: dijkstra on a graph without a node, or from a source that is no key
\* of the graph, is no error: the call does not panic, the solve returns, and
\* the map returned is empty or holds the source alone, at 0.
C13_AnyGraphIsNoError ==
  /\ pc # "panic"
  /\ (Returned /\ StartNode(maze) \notin DOMAIN graph) =>
        \/ DOMAIN result = {}
        \/ /\ DOMAIN result = {StartNode(maze)}
           /\ result[StartNode(maze)].dist = 0

\* What dijkstra does from a source that is no key of the graph: it panics in
\* its set-up, before the first round.
C13_Observed ==
  (pc # "call" /\ StartNode(maze) \notin DOMAIN graph) =>
     /\ pc = "panic"
     /\ popped = {}

\* ------------------------------------------------- day 16, stale entries

\* The element the next round pops is stale: its node's recorded distance is
\* already strictly less than its cost.
StaleTop ==
  /\ pc = "dijkstra"
  /\ heap # {}
  /\ result[HeapPop(heap).node].dist < HeapPop(heap).cost

\* C14: a popped entry whose node's recorded distance is already strictly
\* less than the entry's cost is discarded by the test at the head of the
\* loop, so that none of the node's neighbours is examined.
C14_StaleIsDiscarded ==
  StaleTop => Skip(result, HeapPop(heap).node, HeapPop(heap).cost)

\* What the round of a stale entry does: it examines the neighbours, and no
\* record changes and nothing is pushed.
C14_Observed ==
  [][ (StaleTop /\ popped' # popped) =>
        /\ result' = result
        /\ heap' = heap \ {HeapPop(heap)} ]_vars

\* ------------------------------------------- day 16, the effect of a round

\* The step is a round of dijkstra's loop.
RoundStep == pc = "dijkstra" /\ heap # {} /\ popped' # popped

\* The element the round of the step has popped.
PoppedNow == CHOOSE e \in popped' \ popped : TRUE

\* The elements the step has pushed for the node n.
PushedFor(n) == { f \in heap' \ heap : f.node = n }

\* C16: when the round of a popped (state, dist) finds a neighbour recorded at
\* strictly more than dist + weight, the neighbour's distance becomes
\* dist + weight, its predecessors become exactly {state}, and exactly one
\* element, (neighbour, dist + weight), is pushed.
C16_ImprovementResetsAndPushes ==
  [][ RoundStep =>
        LET e == PoppedNow
            adj == graph[e.node]
        IN  \A k \in DOMAIN adj :
              LET nb == adj[k][1]
                  w == adj[k][2]
              IN  (nb \in DOMAIN result /\ result[nb].dist > e.cost + w) =>
                    /\ result'[nb] = [dist |-> e.cost + w, preds |-> {e.node}]
                    /\ HeapElem(nb, e.cost + w) \notin heap
                    /\ PushedFor(nb) = {HeapElem(nb, e.cost + w)} ]_vars

\* A node was improved a second time: its record holds the distance of its
\* newest element and the one predecessor that led to it, while an element of
\* greater cost exists for it.
C16_Witness ==
  /\ pc = "dijkstra"
  /\ \E f \in heap : \E g \in popped \cup heap :
        /\ g.node = f.node
        /\ g.cost > f.cost
        /\ result[f.node].dist = f.cost
        /\ Cardinality(result[f.node].preds) = 1

\* C17: when the round of a popped (state, dist) finds a neighbour recorded at
\* exactly dist + weight, state joins the neighbour's predecessors, the
\* distance stays and nothing is pushed for it; a neighbour recorded at less
\* is left as it is, and a round that finds every neighbour so changes
\* nothing but the heap it popped from.
C17_TieAddsPredecessorOnly ==
  [][ RoundStep =>
        LET e == PoppedNow
            adj == graph[e.node]
        IN  /\ \A k \in DOMAIN adj :
                 LET nb == adj[k][1]
                     w == adj[k][2]
                 IN  /\ (nb \in DOMAIN result /\ result[nb].dist = e.cost + w) =>
                          /\ result'[nb].dist = result[nb].dist
                          /\ result'[nb].preds = result[nb].preds \cup {e.node}
                          /\ PushedFor(nb) = {}
                     /\ (nb \in DOMAIN result /\ result[nb].dist < e.cost + w) =>
                          /\ result'[nb] = result[nb]
                          /\ PushedFor(nb) = {}
            /\ (\A k \in DOMAIN adj : result[adj[k][1]].dist < e.cost + adj[k][2]) =>
                 /\ result' = result
                 /\ heap' = heap \ {e} ]_vars

\* While the solve runs, a node holds two predecessors (a tie was met), and a
\* popped node has a neighbour recorded at less than its cost plus the weight.
C17_Witness ==
  /\ pc = "dijkstra"
  /\ heap # {}
  /\ \E v \in DOMAIN result : Cardinality(result[v].preds) >= 2
  /\ \E e \in popped : \E k \in DOMAIN graph[e.node] :
        result[graph[e.node][k][1]].dist < e.cost + graph[e.node][k][2]

\* C18: a solve starts with every distance at usize::MAX but the source's,
\* which is 0, and no step of the solve increases a recorded distance.
C18_DistanceNeverIncreases ==
  /\ [] ( (pc = "dijkstra" /\ popped = {}) =>
            \A v \in DOMAIN result :
               result[v].dist = IF v = StartNode(maze) THEN 0 ELSE usize_MAX )
  /\ [][ (pc = "dijkstra" /\ pc' = "dijkstra") =>
           /\ DOMAIN result' = DOMAIN result
           /\ \A v \in DOMAIN result : result'[v].dist <= result[v].dist ]_vars

\* A recorded distance has decreased twice: from usize::MAX to the cost of an
\* element, and from there to less.
C18_Witness ==
  /\ pc = "dijkstra"
  /\ \E e \in popped \cup heap :
        /\ e.node # StartNode(maze)
        /\ result[e.node].dist < e.cost

\* ------------------------------------------- day 16, the walk's queue

\* C19: the walk enqueues a predecessor only if it was not visited before, so
\* that the queue never holds a node a second time, nor a node that was
\* processed already.
C19_EnqueuedAtMostOnce ==
  pc = "walk" =>
    \A i \in DOMAIN queue :
       /\ queue[i] \notin walked
       /\ \A j \in DOMAIN queue : queue[j] = queue[i] => j = i

\* What a round of the walk does: it enqueues every predecessor of the node
\* it pops, visited or not.
C19_Observed ==
  [][ (pc = "walk" /\ queue # <<>> /\ pc' = "walk") =>
        /\ Len(queue') = Len(queue) - 1 + Cardinality(result[Head(queue)].preds)
        /\ \A p \in result[Head(queue)].preds :
             \E i \in DOMAIN queue' : queue'[i] = p ]_vars

\* ------------------------------------------- day 16, rectangular mazes

\* The greatest number of rows, and of columns, of the rectangular mazes.
MaxSide == 3

\* The cells of a maze of the given size that is empty but for S and E.
RectCells(rows, cols, s, e) ==
  [ i \in 1..rows |->
      [ j \in 1..cols |->
          IF <<i, j>> = s THEN Start ELSE IF <<i, j>> = e THEN End ELSE Empty ] ]

\* The rectangular mazes parse_input hands to from_cells: every size up to
\* MaxSide by MaxSide, S and E in any two cells.
RectInputs ==
  { RectCells(sz[1], sz[2], se[1], se[2]) :
      <<sz, se>> \in
        { <<sz, se>> \in ((1..MaxSide) \X (1..MaxSide)) \X
                         (((1..MaxSide) \X (1..MaxSide)) \X
                          ((1..MaxSide) \X (1..MaxSide))) :
            /\ se[1] # se[2]
            /\ se[1][1] <= sz[1] /\ se[1][2] <= sz[2]
            /\ se[2][1] <= sz[1] /\ se[2][2] <= sz[2] } }

\* parse_input has read the cells and is about to call Maze::from_cells.
InitFromCells ==
  /\ maze \in { [cells |-> c] : c \in RectInputs }
  /\ pc = "parse"
  /\ graph = EmptyGraph
  /\ part = 1
  /\ result = None
  /\ heap = {}
  /\ popped = {}
  /\ first = None
  /\ end = None
  /\ seen = {}
  /\ queue = <<>>
  /\ walked = {}
  /\ ans1 = None
  /\ ans2 = None
  /\ Idle18
  /\ IdleRest

\* Maze::from_cells on the cells read: the maze, or a panic of one of the two
\* searches.
FromCells ==
  /\ pc = "parse"
  /\ maze' = from_cells(maze.cells)
  /\ pc' = IF maze'.start = "panic" \/ maze'.end = "panic" THEN "panic"
           ELSE "built"
  /\ UNCHANGED <<graph, part, result, heap, popped, first, end, seen, queue,
                 walked, ans1, ans2, vars18, varsRest>>

NextFromCells == FromCells

SpecFromCells == InitFromCells /\ [][NextFromCells]_vars

\* C20: from_cells on a rectangular maze, square or not, does not index
\* outside the cells, and the end it stores is the (row, column) of the cell
\* that holds E.
C20_EndIsLocated ==
  pc # "parse" =>
    /\ pc # "panic"
    /\ maze.cells[maze.end[1] + 1][maze.end[2] + 1] = End

\* What from_cells does: on a square maze it stores the cell of E; on another
\* it panics unless E stands where the row is less than rows, the column less
\* than cols, and the search with the two ranges exchanged comes to it before
\* it leaves the cells.
C20_Observed ==
  /\ (pc = "built") => maze.cells[maze.end[1] + 1][maze.end[2] + 1] = End
  /\ (pc # "parse" /\ Len(maze.cells) = Len(maze.cells[1])) => pc = "built"
  /\ (pc = "panic") => Len(maze.cells) # Len(maze.cells[1])

\* ------------------------------------------------------------------ day 18

\* The side of the Map of part1 and part2 (71 in the source), and the
\* greatest number of bytes of an input.
Side18 == 3
MaxBytes18 == 4

\* The positions of a map.
Cells18(m) == (0..(m.rows - 1)) \X (0..(m.cols - 1))

\* Map::new
Map_new(rows, cols) ==
  [ rows |-> rows, cols |-> cols, corrupted |-> {},
    best_path_nodes |->
      Some({ <<0, i>> : i \in 0..(rows - 1) } \cup
           { <<rows - 1, j>> : j \in 0..(cols - 1) }) ]

\* Map::neighbors: up, down, left, right, those that are not corrupted.
neighbors(m, pos) ==
  LET i == pos[1]
      j == pos[2]
      opts == (IF i > 0 THEN << <<i - 1, j>> >> ELSE << >>) \o
              (IF i < m.rows - 1 THEN << <<i + 1, j>> >> ELSE << >>) \o
              (IF j > 0 THEN << <<i, j - 1>> >> ELSE << >>) \o
              (IF j < m.cols - 1 THEN << <<i, j + 1>> >> ELSE << >>)
      Free(x) == x \notin m.corrupted
  IN  SelectSeq(opts, Free)

\* The Ord of Pos, a pair of usize: first component, then second.
PosCmp(a, b) ==
  IF a[1] # b[1] THEN (IF a[1] < b[1] THEN -1 ELSE 1)
  ELSE IF a[2] # b[2] THEN (IF a[2] < b[2] THEN -1 ELSE 1)
  ELSE 0

HeapElem18(node, distance) == [node |-> node, distance |-> distance]

\* Ord for day 18's HeapElem: other.distance.cmp(self.distance), then
\* self.node.cmp(other.node).
HeapElemCmp18(self, other) ==
  IF other.distance # self.distance
  THEN (IF other.distance < self.distance THEN -1 ELSE 1)
  ELSE PosCmp(self.node, other.node)

\* BinaryHeap::pop: the greatest element.
HeapPop18(h) == CHOOSE e \in h : \A f \in h : HeapElemCmp18(e, f) >= 0

\* Relax18 that leaves the predecessor as it was.
Relax18KeepsPred(st, node, distance, n) ==
  IF st.result[n].dist > distance + 1
  THEN [ result |-> [st.result EXCEPT ![n].dist = distance + 1],
         heap |-> st.heap \cup {HeapElem18(n, distance + 1)} ]
  ELSE st

\* The closure of best_path's loop for one neighbour n of node.
Relax18(st, node, distance, n) ==
  IF st.result[n].dist > distance + 1
  THEN [ result |-> [st.result EXCEPT ![n] = [dist |-> distance + 1,
                                              pred |-> Some(node)]],
         heap |-> st.heap \cup {HeapElem18(n, distance + 1)} ]
  ELSE st

\* self.neighbors(node).iter().for_each(...), from the k-th neighbour on.
RECURSIVE RelaxFrom18(_, _, _, _, _)
RelaxFrom18(st, ns, node, distance, k) ==
  IF k > Len(ns) THEN st
  ELSE RelaxFrom18(Relax18(st, node, distance, ns[k]), ns, node, distance, k + 1)

\* The while loop of best_path: it ends when the heap is empty or `to` is
\* popped; an element whose node is recorded at less is passed over.
RECURSIVE BestPathLoop(_, _, _)
BestPathLoop(m, st, to) ==
  IF st.heap = {} THEN st.result
  ELSE LET e == HeapPop18(st.heap)
           rest == [st EXCEPT !.heap = @ \ {e}]
       IN  IF e.node = to THEN st.result
           ELSE IF st.result[e.node].dist < e.distance
           THEN BestPathLoop(m, rest, to)
           ELSE BestPathLoop(m, RelaxFrom18(rest, neighbors(m, e.node), e.node,
                                            e.distance, 1), to)

\* The nodes best_path collects from `to` back along the predecessors.
RECURSIVE PathNodes(_, _, _)
PathNodes(res, cur, path_nodes) ==
  IF res[cur].pred = None THEN path_nodes
  ELSE PathNodes(res, res[cur].pred[1], path_nodes \cup {res[cur].pred[1]})

\* best_path indexes result with `from` in its first round and with `to`
\* after the loop: a corrupted one is no key, and the index panics.
best_path_panics(m, from, to) == from \in m.corrupted \/ to \in m.corrupted

\* Map::best_path, for from and to that are not corrupted.
best_path(m, from, to) ==
  LET init == [ pos \in Cells18(m) \ m.corrupted |->
                  [dist |-> IF pos = from THEN 0 ELSE usize_MAX, pred |-> None] ]
      res == BestPathLoop(m, [result |-> init,
                              heap |-> {HeapElem18(from, 0)}], to)
  IN  IF res[to].dist = usize_MAX THEN None
      ELSE Some(PathNodes(res, to, {to}))

\* corrupt that computes the best path anew at every call.
corruptAlwaysAnew(m, pos) ==
  LET m1 == [m EXCEPT !.corrupted = @ \cup {pos}]
      start == <<0, 0>>
      e == <<m.rows - 1, m.cols - 1>>
  IN  IF m.best_path_nodes # None
      THEN IF best_path_panics(m1, start, e)
           THEN [map |-> m1, panic |-> TRUE]
           ELSE [map |-> [m1 EXCEPT !.best_path_nodes = best_path(m1, start, e)],
                 panic |-> FALSE]
      ELSE [map |-> m1, panic |-> FALSE]

\* Map::corrupt: the map after the call, or a panic of best_path.
corrupt(m, pos) ==
  LET m1 == [m EXCEPT !.corrupted = @ \cup {pos}]
      start == <<0, 0>>
      e == <<m.rows - 1, m.cols - 1>>
  IN  IF m.best_path_nodes # None /\ pos \in m.best_path_nodes[1]
      THEN IF best_path_panics(m1, start, e)
           THEN [map |-> m1, panic |-> TRUE]
           ELSE [map |-> [m1 EXCEPT !.best_path_nodes = best_path(m1, start, e)],
                 panic |-> FALSE]
      ELSE [map |-> m1, panic |-> FALSE]

\* The decimal digits of a usize, as format! writes them.
Digit == <<"0", "1", "2", "3", "4", "5", "6", "7", "8", "9">>
RECURSIVE Decimal(_)
Decimal(n) ==
  IF n < 10 THEN <<Digit[n + 1]>> ELSE Decimal(n \div 10) \o <<Digit[(n % 10) + 1]>>

\* format!("{},{}", pos.0, pos.1), a string as the sequence of its characters.
Format18(pos) == Decimal(pos[1]) \o <<",">> \o Decimal(pos[2])

\* Day 16 does not run.
Idle16 ==
  /\ maze = None
  /\ graph = EmptyGraph
  /\ part = 2
  /\ pc = "idle"
  /\ result = None
  /\ heap = {}
  /\ popped = {}
  /\ first = None
  /\ end = None
  /\ seen = {}
  /\ queue = <<>>
  /\ walked = {}
  /\ ans1 = None
  /\ ans2 = None

\* part2 of day 18 has made its Map and reads the bytes of its input.
Init18 ==
  /\ Idle16
  /\ IdleRest
  /\ map = Map_new(Side18, Side18)
  /\ fed = 0
  /\ found = None
  /\ pc18 = "feeding"
  /\ call18 = None
  /\ ret18 = None

\* One round of part2's loop: the next byte of the input, any position of the
\* map not met before, is corrupted; part2 returns it when no path is left.
Part2Feed18 ==
  /\ pc18 = "feeding"
  /\ fed < MaxBytes18
  /\ \E pos \in Cells18(map) \ map.corrupted :
       LET c == corrupt(map, pos)
       IN  /\ map' = c.map
           /\ fed' = fed + 1
           /\ IF c.panic
              THEN /\ pc18' = "panic"
                   /\ found' = found
              ELSE IF c.map.best_path_nodes = None
              THEN /\ pc18' = "returned"
                   /\ found' = Some(Format18(pos))
              ELSE /\ pc18' = pc18
                   /\ found' = found
  /\ UNCHANGED <<call18, ret18, vars16, varsRest>>

\* The input ends before part2 has returned: panic!("We didn't ever block the
\* path!").
Part2Exhausted18 ==
  /\ pc18 = "feeding"
  /\ pc18' = "panic"
  /\ UNCHANGED <<map, fed, found, call18, ret18, vars16, varsRest>>

Next18 ==
  \/ Part2Feed18
  \/ Part2Exhausted18

Spec18 == Init18 /\ [][Next18]_vars

\* The cells that steps over cells not in the set blocked lead to from the
\* cells of the set reached.
RECURSIVE Flood18(_, _, _)
Flood18(cells, blocked, reached) ==
  LET more == { c \in cells \ (blocked \cup reached) :
                  \E r \in reached :
                     \/ (c[1] = r[1] /\ (c[2] = r[2] + 1 \/ r[2] = c[2] + 1))
                     \/ (c[2] = r[2] /\ (c[1] = r[1] + 1 \/ r[1] = c[1] + 1)) }
  IN  IF more = {} THEN reached ELSE Flood18(cells, blocked, reached \cup more)

\* The end of the map can be reached from its start when the cells of the
\* set blocked are corrupted.
EndReachable18(m, blocked) ==
  /\ <<0, 0>> \notin blocked
  /\ <<m.rows - 1, m.cols - 1>> \in Flood18(Cells18(m), blocked, {<<0, 0>>})

\* C15: after any bytes but the start and the end were corrupted,
\* best_path_nodes is Some exactly when the end can be reached from the
\* start, and the byte part2 returns is the first that cut the end off.
C15_SomeIffReachable ==
  (pc18 \in {"feeding", "returned"} /\
   map.corrupted \cap {<<0, 0>>, <<map.rows - 1, map.cols - 1>>} = {}) =>
     /\ (map.best_path_nodes # None) <=> EndReachable18(map, map.corrupted)
     /\ pc18 = "returned" =>
          \E pos \in map.corrupted :
             /\ found = Some(Format18(pos))
             /\ EndReachable18(map, map.corrupted \ {pos})

\* What corrupt keeps: while the end can be reached best_path_nodes is Some,
\* and part2 returns a byte only when the end is cut off.
C15_Observed ==
  (pc18 \in {"feeding", "returned"} /\
   map.corrupted \cap {<<0, 0>>, <<map.rows - 1, map.cols - 1>>} = {}) =>
     /\ EndReachable18(map, map.corrupted) => map.best_path_nodes # None
     /\ pc18 = "returned" => ~EndReachable18(map, map.corrupted)

\* ------------------------------------------- day 16, the graph of a maze

\* The cells of a square maze of the given side without a border of walls:
\* S at s, E at e, walls at ws, the other cells empty.
OpenCells(side, s, e, ws) ==
  [ i \in 1..side |->
      [ j \in 1..side |->
          IF <<i, j>> = s THEN Start
          ELSE IF <<i, j>> = e THEN End
          ELSE IF <<i, j>> \in ws THEN Wall ELSE Empty ] ]

\* The square mazes of side 2 to MaxSide with S and E in any two cells and at
\* most one wall.
OpenInputs ==
  UNION { { OpenCells(side, se[1], se[2], ws) :
              <<se, ws>> \in
                { <<se, ws>> \in (((1..side) \X (1..side)) \X
                                  ((1..side) \X (1..side))) \X
                                 (SUBSET ((1..side) \X (1..side))) :
                    /\ se[1] # se[2]
                    /\ Cardinality(ws) <= 1
                    /\ ws \cap {se[1], se[2]} = {} } } :
          side \in 2..MaxSide }

\* parse_input has read the cells of a square maze.
InitGraph ==
  /\ maze \in { [cells |-> c] : c \in OpenInputs }
  /\ pc = "parse"
  /\ graph = EmptyGraph
  /\ part = 1
  /\ result = None
  /\ heap = {}
  /\ popped = {}
  /\ first = None
  /\ end = None
  /\ seen = {}
  /\ queue = <<>>
  /\ walked = {}
  /\ ans1 = None
  /\ ans2 = None
  /\ Idle18
  /\ IdleRest

\* part1 builds the graph of the maze parsed.
FromMaze ==
  /\ pc = "built"
  /\ graph' = from_maze(maze)
  /\ pc' = "graph"
  /\ UNCHANGED <<maze, part, result, heap, popped, first, end, seen, queue,
                 walked, ans1, ans2, vars18, varsRest>>

NextGraph ==
  \/ FromCells
  \/ FromMaze

SpecGraph == InitGraph /\ [][NextGraph]_vars

\* The cell next to (x, y) in the direction d, in integers: it may lie
\* outside the grid.
Ahead(x, y, d) ==
  CASE d = Up -> <<x - 1, y>>
    [] d = Down -> <<x + 1, y>>
    [] d = Left -> <<x, y - 1>>
    [] d = Right -> <<x, y + 1>>

\* The cell p lies in the grid of the maze and holds no wall.
Open(m, p) ==
  /\ p[1] \in 0..(m.rows - 1)
  /\ p[2] \in 0..(m.cols - 1)
  /\ m.cells[p[1] + 1][p[2] + 1] # Wall

\* The edges of weight w in the vector of the node n.
EdgesOfWeight(g, n, w) == { k \in DOMAIN g[n] : g[n][k][2] = w }

\* C21: a node has an edge of weight 1 to the cell ahead, facing as before,
\* exactly when that cell lies in the grid and holds no wall; it has no other
\* edge of weight 1, and the target of every edge is a key of the graph on a
\* cell without a wall.
C21_ForwardEdges ==
  pc = "graph" =>
    \A n \in DOMAIN graph :
      LET a == Ahead(n.x, n.y, n.direction)
          ones == EdgesOfWeight(graph, n, 1)
      IN  /\ Open(maze, a) <=>
               (\E k \in ones : graph[n][k][1] = Node(a[1], a[2], n.direction))
          /\ \A k \in ones : graph[n][k][1] = Node(a[1], a[2], n.direction)
          /\ Cardinality(ones) <= 1
          /\ \A k \in DOMAIN graph[n] :
               /\ graph[n][k][1] \in DOMAIN graph
               /\ Open(maze, <<graph[n][k][1].x, graph[n][k][1].y>>)

\* The graph of a maze is built in which a node has the edge ahead, another
\* faces a wall and another the end of the grid.
C21_Witness ==
  /\ pc = "graph"
  /\ \E n \in DOMAIN graph : EdgesOfWeight(graph, n, 1) # {}
  /\ \E n \in DOMAIN graph :
        LET a == Ahead(n.x, n.y, n.direction)
        IN  /\ a[1] \in 0..(maze.rows - 1)
            /\ a[2] \in 0..(maze.cols - 1)
            /\ ~Open(maze, a)
            /\ EdgesOfWeight(graph, n, 1) = {}
  /\ \E n \in DOMAIN graph :
        /\ Ahead(n.x, n.y, n.direction)[1] \notin 0..(maze.rows - 1)
        /\ EdgesOfWeight(graph, n, 1) = {}

\* The two facings at a right angle to d.
Perpendicular(d) == IF d \in {Up, Down} THEN {Left, Right} ELSE {Up, Down}

\* C22: the keys of the graph are the nodes of the cells without a wall, and
\* each has exactly two edges of weight 1000, one to each facing at a right
\* angle on its own cell, whatever surrounds the cell; every edge of another
\* weight leaves the cell, so none leads to the opposite facing or the node
\* itself.
C22_RotationEdges ==
  pc = "graph" =>
    /\ DOMAIN graph =
         { Node(p[1], p[2], d) :
             <<p, d>> \in { <<p, d>> \in ((0..(maze.rows - 1)) \X
                                         (0..(maze.cols - 1))) \X
                                        {Up, Down, Left, Right} :
                              Open(maze, p) } }
    /\ \A n \in DOMAIN graph :
         LET ks == EdgesOfWeight(graph, n, 1000)
         IN  /\ Cardinality(ks) = 2
             /\ { graph[n][k][1] : k \in ks } =
                  { Node(n.x, n.y, d) : d \in Perpendicular(n.direction) }
             /\ \A k \in DOMAIN graph[n] \ ks :
                  <<graph[n][k][1].x, graph[n][k][1].y>> # <<n.x, n.y>>

\* The graph of a maze is built in which a node has its two turns and
\* nothing else, and another the edge ahead as well.
C22_Witness ==
  /\ pc = "graph"
  /\ \E n \in DOMAIN graph : Len(graph[n]) = 2
  /\ \E n \in DOMAIN graph : Len(graph[n]) = 3

\* ------------------------------------------- day 16, the order of the pops

\* C23: the element a round pops is in the heap and no element of the heap
\* is cheaper; among those of its cost it is the one the order of Node puts
\* last, and it is strictly above every other element in the order of
\* HeapElem, so the element popped is determined by the heap; and no element
\* popped before was more expensive.
C23_PopsCheapestInNodeOrder ==
  [][ RoundStep =>
        LET e == PoppedNow
        IN  /\ e \in heap
            /\ \A f \in heap : e.cost <= f.cost
            /\ \A f \in heap \ {e} :
                 f.cost = e.cost => NodeCmp(e.node, f.node) > 0
            /\ \A f \in heap \ {e} : HeapElemCmp(e, f) > 0
            /\ \A p \in popped : p.cost <= e.cost ]_vars

\* An element was popped while another of the same cost stays in the heap,
\* after cheaper elements were popped.
C23_Witness ==
  /\ pc = "dijkstra"
  /\ \E e \in popped :
        /\ \E f \in heap : f.cost = e.cost /\ NodeCmp(e.node, f.node) > 0
        /\ \E p \in popped : p.cost < e.cost

\* ------------------------------------------------------------------- day 6

\* The side of the generated boards and the greatest number of their
\* obstructions.
Side06 == 3
MaxObst06 == 2

\* enum Token { Empty, Obstruction, Guard(Direction) }
TokenEmpty == [kind |-> "Empty", dir |-> "-"]
TokenObstruction == [kind |-> "Obstruction", dir |-> "-"]
TokenGuard(dir) == [kind |-> "Guard", dir |-> dir]

\* enum GuardState { Gone, Present(usize, usize, Direction) }
Gone == [present |-> FALSE, i |-> 0, j |-> 0, dir |-> "-"]
Present(i, j, dir) == [present |-> TRUE, i |-> i, j |-> j, dir |-> dir]

\* The tokens of a board of the given size: obstructions at the cells of os,
\* the guard at g facing dir, the indices 0-based.
Tokens06(rows, cols, os, g, dir) ==
  [ i \in 1..rows |->
      [ j \in 1..cols |->
          IF <<i - 1, j - 1>> = g THEN TokenGuard(dir)
          ELSE IF <<i - 1, j - 1>> \in os THEN TokenObstruction
          ELSE TokenEmpty ] ]

\* TEST_INPUT of the tests of day 6.
TestInput06 ==
  Tokens06(10, 10, { <<0, 4>>, <<1, 9>>, <<3, 2>>, <<4, 7>>, <<6, 1>>,
                     <<7, 8>>, <<8, 0>>, <<9, 6>> }, <<6, 4>>, Up)

\* The boards of side Side06 with at most MaxObst06 obstructions and the
\* guard in any free cell, facing any way.
GeneratedBoards06 ==
  LET cells == (0..(Side06 - 1)) \X (0..(Side06 - 1))
  IN  { Tokens06(Side06, Side06, b[1], b[2], b[3]) :
          b \in { b \in (SUBSET cells) \X cells \X {Up, Down, Left, Right} :
                    /\ Cardinality(b[1]) <= MaxObst06
                    /\ b[2] \notin b[1] } }

Boards06 == {TestInput06} \cup GeneratedBoards06

\* tokens[i][j], the indices 0-based as in the source.
TokenAt(tokens, i, j) == tokens[i + 1][j + 1]

\* from_tokens, the loop "Up" over a column: cur when the loop comes to row i.
RECURSIVE CurUp(_, _, _)
CurUp(tokens, i, j) ==
  IF i = 0 THEN Gone
  ELSE IF TokenAt(tokens, i - 1, j) = TokenObstruction
       THEN Present((i - 1) + 1, j, Right)
       ELSE CurUp(tokens, i - 1, j)

\* from_tokens, the loop "Down" over a column, rows in reverse.
RECURSIVE CurDown(_, _, _)
CurDown(tokens, i, j) ==
  IF i = Len(tokens) - 1 THEN Gone
  ELSE IF TokenAt(tokens, i + 1, j) = TokenObstruction
       THEN (IF i + 1 > 0 THEN Present((i + 1) - 1, j, Left) ELSE Gone)
       ELSE CurDown(tokens, i + 1, j)

\* from_tokens, the loop "Left" over a row.
RECURSIVE CurLeft(_, _, _)
CurLeft(tokens, i, j) ==
  IF j = 0 THEN Gone
  ELSE IF TokenAt(tokens, i, j - 1) = TokenObstruction
       THEN Present(i, (j - 1) + 1, Up)
       ELSE CurLeft(tokens, i, j - 1)

\* from_tokens, the loop "Right" over a row, columns in reverse.
RECURSIVE CurRight(_, _, _)
CurRight(tokens, i, j) ==
  IF j = Len(tokens[1]) - 1 THEN Gone
  ELSE IF TokenAt(tokens, i, j + 1) = TokenObstruction
       THEN (IF j + 1 > 0 THEN Present(i, (j + 1) - 1, Down) ELSE Gone)
       ELSE CurRight(tokens, i, j + 1)

\* OriginalBoard::from_tokens: the four tables hold Gone at an obstruction
\* and cur at every other cell.
from_tokens(tokens) ==
  LET rows == Len(tokens)
      cols == Len(tokens[1])
      cells == (0..(rows - 1)) \X (0..(cols - 1))
      Free(c) == TokenAt(tokens, c[1], c[2]) # TokenObstruction
  IN  [ rows |-> rows, cols |-> cols,
        up |-> [ c \in cells |-> IF Free(c) THEN CurUp(tokens, c[1], c[2]) ELSE Gone ],
        down |-> [ c \in cells |-> IF Free(c) THEN CurDown(tokens, c[1], c[2]) ELSE Gone ],
        left |-> [ c \in cells |-> IF Free(c) THEN CurLeft(tokens, c[1], c[2]) ELSE Gone ],
        right |-> [ c \in cells |-> IF Free(c) THEN CurRight(tokens, c[1], c[2]) ELSE Gone ] ]

\* OriginalBoard::next_state
OriginalNextState(board, guard) ==
  IF ~guard.present THEN Gone
  ELSE CASE guard.dir = Up -> board.up[<<guard.i, guard.j>>]
         [] guard.dir = Down -> board.down[<<guard.i, guard.j>>]
         [] guard.dir = Left -> board.left[<<guard.i, guard.j>>]
         [] guard.dir = Right -> board.right[<<guard.i, guard.j>>]

\* AugmentedBoard::from
AugmentedBoard(orig, row, col) == [row |-> row, col |-> col, orig |-> orig]

\* AugmentedNextState without the look at the corner of the OriginalBoard: a
\* guard in line with the added obstruction always stops before it.
AugmentedNextStateAlone(self, guard) ==
  LET g == OriginalNextState(self.orig, guard)
  IN  IF guard.present /\ guard.dir = Up /\ guard.j = self.col /\ guard.i > self.row
      THEN Present(self.row + 1, guard.j, Right)
      ELSE IF guard.present /\ guard.dir = Down /\ guard.j = self.col /\ guard.i < self.row
      THEN Present(self.row - 1, guard.j, Left)
      ELSE IF guard.present /\ guard.dir = Left /\ guard.i = self.row /\ guard.j > self.col
      THEN Present(guard.i, self.col + 1, Up)
      ELSE IF guard.present /\ guard.dir = Right /\ guard.i = self.row /\ guard.j < self.col
      THEN Present(guard.i, self.col - 1, Down)
      ELSE g

\* AugmentedBoard::next_state
AugmentedNextState(self, guard) ==
  LET g == OriginalNextState(self.orig, guard)
  IN  IF guard.present /\ guard.dir = Up /\ guard.j = self.col /\ guard.i > self.row
      THEN (IF g.present /\ g.i > self.row THEN g
            ELSE Present(self.row + 1, guard.j, Right))
      ELSE IF guard.present /\ guard.dir = Down /\ guard.j = self.col /\ guard.i < self.row
      THEN (IF g.present /\ g.i < self.row THEN g
            ELSE Present(self.row - 1, guard.j, Left))
      ELSE IF guard.present /\ guard.dir = Left /\ guard.i = self.row /\ guard.j > self.col
      THEN (IF g.present /\ g.j > self.col THEN g
            ELSE Present(guard.i, self.col + 1, Up))
      ELSE IF guard.present /\ guard.dir = Right /\ guard.i = self.row /\ guard.j < self.col
      THEN (IF g.present /\ g.j < self.col THEN g
            ELSE Present(guard.i, self.col - 1, Down))
      ELSE g

\* A Board is the OriginalBoard (aug is None) or the AugmentedBoard on it
\* with the cell aug[1]: next_state of the trait.
BoardNextState(orig, aug, guard) ==
  IF aug = None THEN OriginalNextState(orig, guard)
  ELSE AugmentedNextState(AugmentedBoard(orig, aug[1][1], aug[1][2]), guard)

\* The while loop of path_from: seen and corners grow until the guard is gone
\* or stands in a state seen before.
RECURSIVE PathLoop(_, _, _, _, _)
PathLoop(orig, aug, guard, seen06, corners) ==
  IF ~guard.present \/ <<guard.i, guard.j, guard.dir>> \in seen06
  THEN [guard |-> guard, corners |-> corners]
  ELSE PathLoop(orig, aug, BoardNextState(orig, aug, guard),
                seen06 \cup {<<guard.i, guard.j, guard.dir>>},
                Append(corners, <<guard.i, guard.j, guard.dir>>))

\* Board::path_from
path_from(orig, aug, start) ==
  LET l == PathLoop(orig, aug, start, {}, <<>>)
      corners == l.corners
  IN  IF ~l.guard.present
      THEN [ corners |->
               IF corners = <<>> THEN corners
               ELSE LET c == corners[Len(corners)]
                        last == CASE c[3] = Up -> <<0, c[2], Up>>
                                  [] c[3] = Down -> <<orig.rows - 1, c[2], Down>>
                                  [] c[3] = Left -> <<c[1], 0, Left>>
                                  [] c[3] = Right -> <<c[1], orig.cols - 1, Right>>
                    IN  Append(corners, last),
             is_loop |-> FALSE ]
      ELSE [corners |-> corners, is_loop |-> TRUE]

\* The spaces of one window of all_spaces_and_dirs: from the corner a in its
\* direction to the corner b.
Segment06(a, b) ==
  CASE a[3] = Up -> { <<i, a[2]>> : i \in b[1]..a[1] }
    [] a[3] = Down -> { <<i, a[2]>> : i \in a[1]..b[1] }
    [] a[3] = Left -> { <<a[1], j>> : j \in b[2]..a[2] }
    [] a[3] = Right -> { <<a[1], j>> : j \in a[2]..b[2] }

\* Path::visited_spaces
visited_spaces(path) ==
  UNION { Segment06(path.corners[k], path.corners[k + 1]) :
            k \in 1..(Len(path.corners) - 1) }

\* parse_input: the first guard token, rows first.
ParseGuard06(tokens) ==
  LET rows == Len(tokens)
      cols == Len(tokens[1])
      hits == { k \in 0..(rows * cols - 1) :
                  TokenAt(tokens, k \div cols, k % cols).kind = "Guard" }
      k == CHOOSE k \in hits : \A o \in hits : k <= o
  IN  Present(k \div cols, k % cols, TokenAt(tokens, k \div cols, k % cols).dir)

\* part2 of day 6
part2_06(tokens) ==
  LET base == from_tokens(tokens)
      guard == ParseGuard06(tokens)
  IN  Cardinality({ p \in visited_spaces(path_from(base, None, guard)) \ {<<guard.i, guard.j>>} :
                      path_from(base, Some(p), guard).is_loop })

\* No day but 6 runs.
IdleBut06 == Idle16 /\ Idle18 /\ Idle14 /\ Idle15

\* main of day 6 has read its input.
Init06 ==
  /\ IdleBut06
  /\ tokens06 \in Boards06
  /\ base06 = None
  /\ guard06 = None
  /\ aug06 = None
  /\ next06 = None
  /\ path06 = None
  /\ ans06 = None
  /\ pc06 = "parse"

\* parse_input: the OriginalBoard and the guard.
Parse06 ==
  /\ pc06 = "parse"
  /\ base06' = from_tokens(tokens06)
  /\ guard06' = ParseGuard06(tokens06)
  /\ pc06' = "parsed"
  /\ UNCHANGED <<tokens06, aug06, next06, path06, ans06, vars16, vars18,
                 vars14, vars15>>

\* part2 returns its count.
Part2Return06 ==
  /\ pc06 = "parsed"
  /\ ans06' = Some(part2_06(tokens06))
  /\ pc06' = "counted"
  /\ UNCHANGED <<tokens06, base06, guard06, aug06, next06, path06, vars16,
                 vars18, vars14, vars15>>

\* The cells of the board without an obstruction, the guard's cell left out.
Candidates06 ==
  { c \in (0..(base06.rows - 1)) \X (0..(base06.cols - 1)) :
      /\ TokenAt(tokens06, c[1], c[2]) # TokenObstruction
      /\ c # <<guard06.i, guard06.j>> }

\* next_state of the AugmentedBoard on any cell without an obstruction,
\* applied to the guard parsed.
AugmentedNextState06 ==
  /\ pc06 = "counted"
  /\ \E c \in Candidates06 :
       /\ aug06' = Some(c)
       /\ next06' = AugmentedNextState(AugmentedBoard(base06, c[1], c[2]), guard06)
  /\ pc06' = "next"
  /\ UNCHANGED <<tokens06, base06, guard06, path06, ans06, vars16, vars18,
                 vars14, vars15>>

\* path_from of the OriginalBoard, or of the AugmentedBoard on any cell
\* without an obstruction, from the guard parsed.
PathFrom06 ==
  /\ pc06 = "counted"
  /\ \E a \in {None} \cup { Some(c) : c \in Candidates06 } :
       /\ aug06' = a
       /\ path06' = path_from(base06, a, guard06)
  /\ pc06' = "path"
  /\ UNCHANGED <<tokens06, base06, guard06, next06, ans06, vars16, vars18,
                 vars14, vars15>>

Next06 ==
  \/ Parse06
  \/ Part2Return06
  \/ AugmentedNextState06
  \/ PathFrom06

Spec06 == Init06 /\ [][Next06]_vars

\* The tokens with an obstruction put at (row, col).
WithObstruction(tokens, c) ==
  [tokens EXCEPT ![c[1] + 1][c[2] + 1] = TokenObstruction]

\* The facing after a turn to the right.
TurnRight(dir) ==
  CASE dir = Up -> Right
    [] dir = Right -> Down
    [] dir = Down -> Left
    [] dir = Left -> Up

\* The guard walks cell by cell from s = <<i, j, dir>>: it turns right before
\* an obstruction and steps ahead otherwise, until it leaves the board or
\* stands in a state it stood in before.  The cells it stood on, and whether
\* it came to loop.
RECURSIVE Walk06(_, _, _)
Walk06(tokens, s, before) ==
  LET a == Ahead(s[1], s[2], s[3])
      now == before \cup {s}
      inside == /\ a[1] \in 0..(Len(tokens) - 1)
                /\ a[2] \in 0..(Len(tokens[1]) - 1)
  IN  IF s \in before
      THEN [cells |-> { <<t[1], t[2]>> : t \in before }, loops |-> TRUE]
      ELSE IF ~inside
      THEN [cells |-> { <<t[1], t[2]>> : t \in now }, loops |-> FALSE]
      ELSE IF TokenAt(tokens, a[1], a[2]) = TokenObstruction
      THEN Walk06(tokens, <<s[1], s[2], TurnRight(s[3])>>, now)
      ELSE Walk06(tokens, <<a[1], a[2], s[3]>>, now)

\* The number of cells the guard of the tokens visits, its own left out, that
\* make it loop when an obstruction is put there.
LoopingCells06(tokens) ==
  LET g == ParseGuard06(tokens)
      s == <<g.i, g.j, g.dir>>
  IN  Cardinality({ c \in Walk06(tokens, s, {}).cells \ {<<g.i, g.j>>} :
                      Walk06(WithObstruction(tokens, c), s, {}).loops })

EndsAtExit06 ==
  LET cs == path06.corners
      c == cs[Len(cs) - 1]
      last == cs[Len(cs)]
      tokens == IF aug06 = None THEN tokens06
                ELSE WithObstruction(tokens06, aug06[1])
  IN  /\ Len(cs) >= 2
      /\ last[3] = c[3]
      /\ last = CASE c[3] = Up -> <<0, c[2], Up>>
                  [] c[3] = Down -> <<base06.rows - 1, c[2], Down>>
                  [] c[3] = Left -> <<c[1], 0, Left>>
                  [] c[3] = Right -> <<c[1], base06.cols - 1, Right>>
      /\ \A p \in Segment06(c, last) :
           TokenAt(tokens, p[1], p[2]) # TokenObstruction

\* C25: the last corner of a Path that is a loop is the state recognised as
\* a repeat, one that stands in the corners before; the last corner of a Path
\* that is no loop is the last cell touched before the guard leaves.
C25_LastCornerIsRepeatOrExit ==
  pc06 = "path" =>
    IF path06.is_loop
    THEN \E k \in 1..(Len(path06.corners) - 1) :
            path06.corners[k] = path06.corners[Len(path06.corners)]
    ELSE EndsAtExit06

\* What path_from returns: the corners of a loop are all different, and the
\* state recognised as a repeat is the one that next_state gives for the
\* last of them; it is in the corners, but not appended.  A Path that is no
\* loop ends at the exit.
C25_Observed ==
  pc06 = "path" =>
    IF path06.is_loop
    THEN LET cs == path06.corners
             l == cs[Len(cs)]
             r == BoardNextState(base06, aug06, Present(l[1], l[2], l[3]))
         IN  /\ \A a, b \in DOMAIN cs : a # b => cs[a] # cs[b]
             /\ r.present
             /\ \E k \in DOMAIN cs : cs[k] = <<r.i, r.j, r.dir>>
    ELSE EndsAtExit06

\* ------------------------------------------------------------------ day 14

\* The side of the pixel maps (the map of part2 has 103 rows of 101 pixels).
Side14 == 3

\* The maps to_map can return: every pixel on or off.
Maps14 == [ 1..Side14 -> [ 1..Side14 -> BOOLEAN ] ]

\* map[i][j], the indices 0-based as in the source.
PixelAt(m, i, j) == m[i + 1][j + 1]

\* The range a..b of Rust, b excluded.
RustRange(a, b) == a..(b - 1)

\* neighbor_score_at
neighbor_score_at(m, i, j) ==
  IF ~PixelAt(m, i, j) THEN 0
  ELSE LET window == { p \in RustRange(i - 1, i + 1) \X RustRange(j - 1, j + 1) :
                         /\ p[1] >= 0 /\ p[1] < Len(m)
                         /\ p[2] >= 0 /\ p[2] < Len(m[1]) }
       IN  -1 + Cardinality({ p \in window : PixelAt(m, p[1], p[2]) })

\* No day but 14 runs.
IdleBut14 == Idle16 /\ Idle18 /\ Idle06 /\ Idle15

\* neighbor_score is about to call neighbor_score_at on a pixel of a map.
Init14 ==
  /\ IdleBut14
  /\ map14 \in Maps14
  /\ at14 \in (0..(Side14 - 1)) \X (0..(Side14 - 1))
  /\ score14 = None
  /\ pc14 = "call"

\* neighbor_score_at returns.
NeighborScoreAt14 ==
  /\ pc14 = "call"
  /\ score14' = Some(neighbor_score_at(map14, at14[1], at14[2]))
  /\ pc14' = "returned"
  /\ UNCHANGED <<map14, at14, vars16, vars18, vars06, vars15>>

Next14 == NeighborScoreAt14

Spec14 == Init14 /\ [][Next14]_vars

\* The pixels of the 3x3 grid centred at (i, j) that lie in the map.
Grid3x3(m, i, j) ==
  { p \in ((i - 1)..(i + 1)) \X ((j - 1)..(j + 1)) :
      /\ p[1] \in 0..(Len(m) - 1)
      /\ p[2] \in 0..(Len(m[1]) - 1) }

\* C26: neighbor_score_at returns 0 for a pixel that is off, and for a pixel
\* that is on the number of pixels that are on in the 3x3 grid centred at
\* it, clipped to the map.
C26_ScoreCounts3x3 ==
  pc14 = "returned" =>
    score14[1] =
      IF ~PixelAt(map14, at14[1], at14[2]) THEN 0
      ELSE Cardinality({ p \in Grid3x3(map14, at14[1], at14[2]) :
                           PixelAt(map14, p[1], p[2]) })

\* What neighbor_score_at returns for a pixel that is on: the number of
\* pixels that are on among the one above, the one to the left and the one
\* above to the left.
C26_Observed ==
  pc14 = "returned" =>
    score14[1] =
      IF ~PixelAt(map14, at14[1], at14[2]) THEN 0
      ELSE Cardinality({ p \in Grid3x3(map14, at14[1], at14[2]) :
                           /\ p # at14
                           /\ p[1] <= at14[1]
                           /\ p[2] <= at14[2]
                           /\ PixelAt(map14, p[1], p[2]) })

\* ------------------------------------------------- day 18, best_path alone

\* A Map of side Side18 with at most MaxBytes18 cells corrupted, and a call
\* of best_path on it from the start of the map to a cell `to`, neither of
\* the two corrupted.
InitBestPath ==
  /\ Idle16
  /\ IdleRest
  /\ \E cs \in SUBSET ((0..(Side18 - 1)) \X (0..(Side18 - 1))) :
       /\ Cardinality(cs) <= MaxBytes18
       /\ map = [Map_new(Side18, Side18) EXCEPT !.corrupted = cs]
  /\ \E to \in Cells18(map) \ map.corrupted :
       /\ <<0, 0>> \notin map.corrupted
       /\ call18 = [from |-> <<0, 0>>, to |-> to]
  /\ ret18 = None
  /\ fed = 0
  /\ found = None
  /\ pc18 = "call"

\* best_path returns.
BestPath18 ==
  /\ pc18 = "call"
  /\ ret18' = Some(best_path(map, call18.from, call18.to))
  /\ pc18' = "returned"
  /\ UNCHANGED <<map, fed, found, call18, vars16, varsRest>>

NextBestPath == BestPath18

SpecBestPath == InitBestPath /\ [][NextBestPath]_vars

\* Two cells are next to each other, in a row or in a column.
Adjacent18(a, b) ==
  \/ (a[1] = b[1] /\ (a[2] = b[2] + 1 \/ b[2] = a[2] + 1))
  \/ (a[2] = b[2] /\ (a[1] = b[1] + 1 \/ b[1] = a[1] + 1))

\* The layers of a search in breadth from the layers found so far: layers[k]
\* holds the free cells k - 1 steps from the first.
RECURSIVE Layers18(_, _, _)
Layers18(cells, blocked, layers) ==
  LET reached == UNION { layers[k] : k \in DOMAIN layers }
      more == { c \in cells \ (blocked \cup reached) :
                  \E r \in layers[Len(layers)] : Adjacent18(c, r) }
  IN  IF more = {} THEN layers
      ELSE Layers18(cells, blocked, Append(layers, more))

\* C27: best_path between two cells that are not corrupted returns None
\* exactly when no way over cells not corrupted leads from the one to the
\* other; the set it returns otherwise is a shortest way: one cell at each
\* number of steps from `from`, up to the number of steps of `to`, each next
\* to the one before, the first `from` and the last `to`.
C27_BestPathIsShortest ==
  pc18 = "returned" =>
    LET layers == Layers18(Cells18(map), map.corrupted, <<{call18.from}>>)
        at == { k \in DOMAIN layers : call18.to \in layers[k] }
    IN  IF at = {} THEN ret18[1] = None
        ELSE LET d == CHOOSE k \in at : TRUE
                 S == ret18[1][1]
             IN  /\ ret18[1] # None
                 /\ S \cap map.corrupted = {}
                 /\ Cardinality(S) = d
                 /\ call18.from \in S
                 /\ call18.to \in S
                 /\ \A k \in 1..d : Cardinality(S \cap layers[k]) = 1
                 /\ \A k \in 1..(d - 1) :
                      \A a \in S \cap layers[k] :
                        \A b \in S \cap layers[k + 1] : Adjacent18(a, b)

\* best_path returned a way of three cells or more while cells farther from
\* `from` than `to` exist: the loop was left when `to` was popped, before
\* the heap was empty.
C27_Witness ==
  /\ pc18 = "returned"
  /\ ret18[1] # None
  /\ Cardinality(ret18[1][1]) >= 3
  /\ Len(Layers18(Cells18(map), map.corrupted, <<{call18.from}>>))
       > Cardinality(ret18[1][1])

\* ------------------------------------------------ day 18, the stored path

\* The step is a call of corrupt that returned.
CorruptStep18 ==
  /\ pc18 = "feeding"
  /\ fed' = fed + 1
  /\ pc18' # "panic"

\* C28: after the calls of corrupt that returned, the set stored in
\* best_path_nodes holds no corrupted cell; and a call of corrupt on a cell
\* that is not in the set leaves best_path_nodes as it was and only adds the
\* cell to the corrupted ones.
C28_StoredPathIsFree ==
  /\ [] ( (pc18 \in {"feeding", "returned"} /\ map.best_path_nodes # None) =>
            map.best_path_nodes[1] \cap map.corrupted = {} )
  /\ [][ CorruptStep18 =>
           \A pos \in map'.corrupted \ map.corrupted :
             (map.best_path_nodes # None /\ pos \notin map.best_path_nodes[1]) =>
               /\ map'.best_path_nodes = map.best_path_nodes
               /\ map'.corrupted = map.corrupted \cup {pos}
               /\ map'.rows = map.rows
               /\ map'.cols = map.cols ]_vars

\* The path was computed anew, and a cell off the path stored now is
\* corrupted.
C28_Witness ==
  /\ pc18 = "feeding"
  /\ map.best_path_nodes # None
  /\ map.best_path_nodes # Map_new(map.rows, map.cols).best_path_nodes
  /\ Cardinality(map.corrupted) >= 2

\* ------------------------------------------- day 16, the walk terminates

\* The run of FairSpec with the rounds of the walk and the return of part2
\* taken as long as they can be: the program is sequential and keeps running.
FairWalkSpec ==
  /\ InitFair
  /\ [][Next]_vars
  /\ WF_vars(DijkstraRound)
  /\ WF_vars(Part2SelectEnd)
  /\ WF_vars(WalkRound)
  /\ WF_vars(Part2Return)

\* C29: while dijkstra runs and after it, every predecessor recorded for a
\* node is recorded at a strictly smaller distance than the node, so no
\* chain of predecessors comes back to where it began; and the walk of
\* part2, which tests no node for a visit before, comes to its end.
C29_WalkTerminates ==
  /\ [] ( pc \in {"dijkstra", "walk", "done"} =>
            \A v \in DOMAIN result :
              \A p \in result[v].preds : result[p].dist < result[v].dist )
  /\ (pc = "walk") ~> (pc = "done")

\* The walk has come to its end over a node that two least paths reach.
C29_Witness ==
  /\ pc = "done"
  /\ \E v \in walked : Cardinality(result[v].preds) >= 2

\* ------------------------------------------------------------------ day 15

\* The inner rows and columns of the generated levels, and the greatest
\* number of their boxes and inner walls together.
Inner15 == 3
MaxPieces15 == 2

\* enum Contents { Empty, Box, BoxLeft, BoxRight, Wall, Robot }
Box == "Box"
BoxLeft == "BoxLeft"
BoxRight == "BoxRight"
Robot == "Robot"

\* The board parsed from an input: a border of walls around the inner cells,
\* the robot at r, boxes at bs, walls at ws, the indices 0-based.
Board15(r, bs, ws) ==
  [ i \in 1..(Inner15 + 2) |->
      [ j \in 1..(Inner15 + 2) |->
          IF i \in {1, Inner15 + 2} \/ j \in {1, Inner15 + 2} THEN Wall
          ELSE IF <<i - 1, j - 1>> = r THEN Robot
          ELSE IF <<i - 1, j - 1>> \in bs THEN Box
          ELSE IF <<i - 1, j - 1>> \in ws THEN Wall
          ELSE Empty ] ]

\* The sets of at most k of the given cells.
RECURSIVE CellSets15(_, _)
CellSets15(cells, k) ==
  IF k = 0 THEN {{}}
  ELSE LET fewer == CellSets15(cells, k - 1)
       IN  fewer \cup { s \cup {c} : s \in fewer, c \in cells }

\* The inner cells of the inputs.
InnerCells15 == (1..Inner15) \X (1..Inner15)

\* parse_input: the Level of a board, robot_pos the first Robot, rows first.
Level15(board) ==
  LET rows == Len(board)
      cols == Len(board[1])
      hits == { k \in 0..(rows * cols - 1) :
                  board[(k \div cols) + 1][(k % cols) + 1] = Robot }
      k == CHOOSE k \in hits : \A o \in hits : k <= o
  IN  [ rows |-> rows, cols |-> cols, board |-> board,
        robot_pos |-> <<k \div cols, k % cols>> ]

\* self[pos]
ContentsAt(self, pos) == self.board[pos[1] + 1][pos[2] + 1]

\* Level::next_pos
next_pos15(self, pos, direction) ==
  LET i == pos[1]
      j == pos[2]
  IN  CASE direction = Up /\ i = 0 -> None
        [] direction = Up -> Some(<<i - 1, j>>)
        [] direction = Down /\ i = self.rows - 1 -> None
        [] direction = Down -> Some(<<i + 1, j>>)
        [] direction = Left /\ j = 0 -> None
        [] direction = Left -> Some(<<i, j - 1>>)
        [] direction = Right /\ j = self.cols - 1 -> None
        [] direction = Right -> Some(<<i, j + 1>>)

\* The two cells expand makes of one.
Expanded(contents) ==
  CASE contents = Empty -> <<Empty, Empty>>
    [] contents = Box -> <<BoxLeft, BoxRight>>
    [] contents = Wall -> <<Wall, Wall>>
    [] contents = Robot -> <<Robot, Empty>>

\* Level::expand, of a level without BoxLeft and BoxRight.
expand(self) ==
  [ rows |-> self.rows,
    cols |-> 2 * self.cols,
    board |-> [ i \in 1..self.rows |->
                  [ j \in 1..(2 * self.cols) |->
                      Expanded(self.board[i][(j + 1) \div 2])[2 - (j % 2)] ] ],
    robot_pos |-> <<self.robot_pos[1], 2 * self.robot_pos[2]>> ]

\* apply_move without the second half of a wide box among the neighbours.
PartnerNone(self, cur_pos, cur_type, direction) == << >>

\* The second half of a wide box that moves up or down: the direction in
\* which apply_move looks for it, if it does.
Partner(self, cur_pos, cur_type, direction) ==
  IF cur_type = BoxLeft /\ direction \in {Up, Down} THEN <<Right>>
  ELSE IF cur_type = BoxRight /\ direction \in {Up, Down} THEN <<Left>>
  ELSE << >>

\* neighbors.into_iter().for_each: the neighbours not seen are marked seen
\* and queued, from the k-th on.
RECURSIVE Enqueue15(_, _, _)
Enqueue15(st, ns, k) ==
  IF k > Len(ns) THEN st
  ELSE Enqueue15(IF ns[k] \in st.seen THEN st
                 ELSE [st EXCEPT !.seen = @ \cup {ns[k]},
                                 !.queue = Append(@, ns[k])],
                 ns, k + 1)

\* updates.insert(new_pos, cur_type); updates.entry(cur_pos).or_insert(Empty)
Updated15(updates, cur_pos, new_pos, cur_type) ==
  LET u1 == [ k \in DOMAIN updates \cup {new_pos} |->
                IF k = new_pos THEN cur_type ELSE updates[k] ]
  IN  [ k \in DOMAIN u1 \cup {cur_pos} |->
          IF k \in DOMAIN u1 THEN u1[k] ELSE Empty ]

\* The while loop of apply_move: st holds queue, seen and updates; blocked
\* when a return None leaves the loop.
RECURSIVE MoveLoop(_, _, _)
MoveLoop(self, direction, st) ==
  IF st.queue = << >> THEN [blocked |-> FALSE, updates |-> st.updates]
  ELSE LET cur_pos == Head(st.queue)
           cur_type == ContentsAt(self, cur_pos)
           rest == [st EXCEPT !.queue = Tail(@)]
           new_pos == next_pos15(self, cur_pos, direction)
           ps == Partner(self, cur_pos, cur_type, direction)
           partner == IF ps = << >> THEN Some(cur_pos)
                      ELSE next_pos15(self, cur_pos, ps[1])
       IN  IF cur_type = Wall THEN [blocked |-> TRUE, updates |-> st.updates]
           ELSE IF cur_type = Empty THEN MoveLoop(self, direction, rest)
           ELSE IF new_pos = None \/ partner = None
           THEN [blocked |-> TRUE, updates |-> st.updates]
           ELSE LET neighbors15 == <<new_pos[1]>> \o
                                   (IF ps = << >> THEN << >> ELSE <<partner[1]>>)
                    queued == Enqueue15(rest, neighbors15, 1)
                IN  MoveLoop(self, direction,
                             [queued EXCEPT !.updates =
                                Updated15(@, cur_pos, new_pos[1], cur_type)])

\* Level::apply_move: the level after the call and what the call returns.
apply_move(self, direction) ==
  LET robot_new_space == next_pos15(self, self.robot_pos, direction)
      l == MoveLoop(self, direction,
                    [queue |-> <<self.robot_pos>>, seen |-> {self.robot_pos},
                     updates |-> << >>])
  IN  IF robot_new_space = None \/ l.blocked
      THEN [level |-> self, ret |-> None]
      ELSE [ level |->
               [self EXCEPT
                  !.board = [ i \in 1..self.rows |->
                                [ j \in 1..self.cols |->
                                    IF <<i - 1, j - 1>> \in DOMAIN l.updates
                                    THEN l.updates[<<i - 1, j - 1>>]
                                    ELSE self.board[i][j] ] ],
                  !.robot_pos = robot_new_space[1]],
             ret |-> robot_new_space ]

IdleBut15 == Idle16 /\ Idle18 /\ Idle06 /\ Idle14

\* part1 or part2 has parsed a level and applied no move yet.
Init15 ==
  /\ IdleBut15
  /\ \E ps \in CellSets15(InnerCells15, MaxPieces15) :
       \E bs \in SUBSET ps, r \in InnerCells15 \ ps :
         level15 = Level15(Board15(r, bs, ps \ bs))
  /\ moved15 = None
  /\ pc15 \in {"part1", "part2"}

\* part2 expands the level before the moves.
Expand15 ==
  /\ pc15 = "part2"
  /\ level15' = expand(level15)
  /\ pc15' = "expanded"
  /\ UNCHANGED <<moved15, vars16, vars18, vars06, vars14>>

\* One call of apply_move, with the next direction of the input.
ApplyMove15 ==
  /\ pc15 \in {"part1", "expanded"}
  /\ \E direction \in {Up, Down, Left, Right} :
       \E r \in {apply_move(level15, direction)} :
         /\ level15' = r.level
         /\ moved15' = r.ret
  /\ UNCHANGED <<pc15, vars16, vars18, vars06, vars14>>

Next15 == Expand15 \/ ApplyMove15

Spec15 == Init15 /\ [][Next15]_vars

\* The number of boxes of a level, a wide box counted at its left half.
Boxes15(self) ==
  Cardinality({ k \in 0..(self.rows * self.cols - 1) :
                  self.board[(k \div self.cols) + 1][(k % self.cols) + 1]
                    \in {Box, BoxLeft} })

\* The level is being moved on, plain or expanded.
Moving15 == pc15 \in {"part1", "expanded"}

\* Exactly one cell holds Robot, the one at robot_pos, and the halves of the
\* wide boxes stand in pairs, BoxLeft immediately left of BoxRight.
WellFormed15(self) ==
  \A i \in 0..(self.rows - 1), j \in 0..(self.cols - 1) :
    LET c == self.board[i + 1][j + 1]
    IN  /\ (c = Robot) <=> (i = self.robot_pos[1] /\ j = self.robot_pos[2])
        /\ c = BoxLeft =>
             j + 1 < self.cols /\ self.board[i + 1][j + 2] = BoxRight
        /\ c = BoxRight =>
             j > 0 /\ self.board[i + 1][j] = BoxLeft

\* The two levels have their walls in the same cells.
SameWalls15(a, b) ==
  \A i \in 1..a.rows, j \in 1..a.cols :
    (a.board[i][j] = Wall) <=> (b.board[i][j] = Wall)

\* C30: through any sequence of apply_move calls on a wall-enclosed level,
\* plain or expanded, exactly one cell holds Robot and it is robot_pos, and
\* every BoxLeft has a BoxRight immediately to its right and every BoxRight
\* a BoxLeft immediately to its left; each call leaves the wall cells and
\* the number of boxes as they were, and a call that returns None leaves
\* the board and robot_pos as they were.
C30_MovesKeepTheLevel ==
  /\ [](Moving15 => WellFormed15(level15))
  /\ [][(Moving15 /\ Moving15') =>
          IF moved15' = None THEN level15' = level15
          ELSE /\ SameWalls15(level15, level15')
               /\ Boxes15(level15') = Boxes15(level15)]_vars

\* On an expanded level a wide box stands off the even columns, where only a
\* push can have put it, and the robot stands under its right half after a
\* move that was not blocked.
C30_Witness ==
  /\ pc15 = "expanded"
  /\ moved15 # None
  /\ \E p \in (1..Inner15) \X (2..(2 * Inner15 + 1)) :
       /\ ContentsAt(level15, p) = BoxLeft
       /\ p[2] % 2 = 1
       /\ level15.robot_pos[1] = p[1] + 1
       /\ level15.robot_pos[2] = p[2] + 1
       /\ p[1] < Inner15

====
